---- MODULE Spec2Model ----
(***************************************************************************)
(* Model of the news-writer services (geminiService, railwayService,      *)
(* articleGeneratorService) and of the pages that call them.               *)
(*                                                                         *)
(* Strings are sequences of atoms.  An atom is either one character (a     *)
(* backtick, written Tick, "<", ">", "/", " ", a double quote, a           *)
(* backslash) or a word that no regular expression of the code can match   *)
(* a part of ("html", "json", "x", a JSON document such as "J_null").      *)
(* Every regular expression of the code is translated into a scanner over  *)
(* these atoms.                                                            *)
(***************************************************************************)
EXTENDS Integers, Sequences, FiniteSets, TLC

(***************************************************************************)
(* Bounds of the exploration.                                              *)
(***************************************************************************)
MaxTokens == 4
MaxTopicLen == 2
MaxRequests == 3

\* The atoms that stand for one character each.
Tick == "tick"
Quote == "quote"
Backslash == "backslash"

(***************************************************************************)
(* Generic helpers on sequences.                                           *)
(***************************************************************************)
RECURSIVE Flatten(_)
Flatten(ss) == IF ss = <<>> THEN <<>> ELSE Head(ss) \o Flatten(Tail(ss))

SeqsUpTo(S, n) == UNION { [1..k -> S] : k \in 0..n }

Last(s) == s[Len(s)]

\* The first index >= from of s holding one of chars, Len(s) + 1 when none does.
NextOf(s, from, chars) ==
  LET hits == { i \in from..Len(s) : s[i] \in chars }
  IN  IF hits = {} THEN Len(s) + 1 ELSE CHOOSE i \in hits : \A j \in hits : i <= j

\* String.prototype.toLowerCase on the letters the regular expressions name.
Lower(c) ==
  CASE c = "HTML" -> "html"
    [] c = "JSON" -> "json"
    [] c = "BODY" -> "body"
    [] c = "!DOCTYPE" -> "!doctype"
    [] c = "STYLE" -> "style"
    [] c = "K" -> "k"
    [] OTHER -> c

\* \s of the regular expressions and the white space String.prototype.trim removes.
IsSpace(c) == c = " "

RECURSIVE TrimStart(_)
TrimStart(s) ==
  IF s # <<>> /\ IsSpace(Head(s)) THEN TrimStart(Tail(s)) ELSE s

RECURSIVE TrimEnd(_)
TrimEnd(s) ==
  IF s # <<>> /\ IsSpace(Last(s)) THEN TrimEnd(SubSeq(s, 1, Len(s) - 1)) ELSE s

\* String.prototype.trim
Trim(s) == TrimEnd(TrimStart(s))

(***************************************************************************)
(* The fence patterns: three backticks, an optional tag, the content up   *)
(* to the next three backticks.                                            *)
(***************************************************************************)
FenceAt(s, i) ==
  /\ i >= 1
  /\ i + 2 <= Len(s)
  /\ s[i] = Tick /\ s[i + 1] = Tick /\ s[i + 2] = Tick

\* The first index >= from at which three backticks start, 0 when there is none.
FirstFence(s, from) ==
  LET hits == { i \in from..Len(s) : FenceAt(s, i) }
  IN  IF hits = {} THEN 0 ELSE CHOOSE i \in hits : \A j \in hits : i <= j

\* text.match(fence pattern): the leftmost match, the optional tag taken
\* greedily and the content lazily.  inner is the content group.
FenceMatch(s, tag) ==
  LET open  == FirstFence(s, 1)
      c     == open + 3
      tagged == open > 0 /\ c <= Len(s) /\ Lower(s[c]) = tag
      start == IF tagged THEN c + 1 ELSE c
      close == IF open = 0 THEN 0 ELSE FirstFence(s, start)
  IN  IF open = 0 \/ close = 0
        THEN [found |-> FALSE, tagged |-> FALSE, inner |-> <<>>]
        ELSE [found |-> TRUE, tagged |-> tagged,
              inner |-> SubSeq(s, start, close - 1)]

\* stripCodeFences returning the content of the block as matched, untrimmed.
StripCodeFencesUntrimmed(text) ==
  IF text = <<>> THEN <<>>
  ELSE LET m == FenceMatch(text, "html")
       IN  IF m.found /\ m.inner # <<>> THEN m.inner ELSE Trim(text)

\* stripCodeFences returning a text without block as it is, untrimmed.
StripCodeFencesKeepingSpace(text) ==
  IF text = <<>> THEN <<>>
  ELSE LET m == FenceMatch(text, "html")
       IN  IF m.found /\ m.inner # <<>> THEN Trim(m.inner) ELSE text

\* stripCodeFences
StripCodeFences(text) ==
  IF text = <<>> THEN <<>>
  ELSE LET m == FenceMatch(text, "html")
       IN  IF m.found /\ m.inner # <<>> THEN Trim(m.inner) ELSE Trim(text)

\* extractJsonPayload
ExtractJsonPayload(text) ==
  IF text = <<>> THEN <<>>
  ELSE LET m == FenceMatch(text, "json")
       IN  IF m.found /\ m.inner # <<>> THEN Trim(m.inner) ELSE Trim(text)

\* let text = (response.text ?? "").trim(); const match = text.match(jsonFencePattern);
\* if (match && match[2]) text = match[2];
UnwrapJsonFence(raw) ==
  LET text == Trim(raw)
      m    == FenceMatch(text, "json")
  IN  IF m.found /\ m.inner # <<>> THEN m.inner ELSE text

(***************************************************************************)
(* escapeDoubleQuotes: value.replace of every double quote.  The           *)
(* replacement literal of geminiService.ts is a quote written with a       *)
(* needless escape, so it is the quote alone; the other files write an     *)
(* escaped backslash followed by the quote.                                *)
(***************************************************************************)
RECURSIVE ReplaceQuotes(_, _)
ReplaceQuotes(value, replacement) ==
  IF value = <<>> THEN <<>>
  ELSE (IF Head(value) = Quote THEN replacement ELSE <<Head(value)>>)
         \o ReplaceQuotes(Tail(value), replacement)

EscapeDoubleQuotesGemini(value) == ReplaceQuotes(value, <<Quote>>)

EscapeDoubleQuotesRailway(value) == ReplaceQuotes(value, <<Backslash, Quote>>)

EscapeDoubleQuotesArticle(value) == ReplaceQuotes(value, <<Backslash, Quote>>)

(***************************************************************************)
(* sanitizeArticleHtml.                                                    *)
(***************************************************************************)
\* The first index >= from holding ">", 0 when there is none.
FirstGt(s, from) ==
  LET hits == { i \in from..Len(s) : s[i] = ">" }
  IN  IF hits = {} THEN 0 ELSE CHOOSE i \in hits : \A j \in hits : i <= j

RECURSIVE SkipSpaces(_, _)
SkipSpaces(s, i) ==
  IF i <= Len(s) /\ IsSpace(s[i]) THEN SkipSpaces(s, i + 1) ELSE i

\* Whether the word c starts with the letters of name, whatever the case.
StartsWithWord(c, name) ==
  \/ Lower(c) = name
  \/ Lower(c) = "header" /\ name = "head"

\* The pattern "<", an optional "/", white space, name, anything but ">", ">"
\* tried at index i: the index of the closing ">" or 0.
TagMatchEnd(s, i, name) ==
  IF i > Len(s) \/ s[i] # "<" THEN 0
  ELSE LET k1 == IF i + 1 <= Len(s) /\ s[i + 1] = "/" THEN i + 2 ELSE i + 1
           k2 == SkipSpaces(s, k1)
       IN  IF k2 <= Len(s) /\ StartsWithWord(s[k2], name)
             THEN FirstGt(s, k2 + 1)
             ELSE 0

\* replace(pattern of name, "") with the g flag: left to right, not overlapping.
RECURSIVE RemoveTagFrom(_, _, _)
RemoveTagFrom(s, i, name) ==
  IF i > Len(s) THEN <<>>
  ELSE IF s[i] # "<" THEN
    SubSeq(s, i, NextOf(s, i, {"<"}) - 1) \o RemoveTagFrom(s, NextOf(s, i, {"<"}), name)
  ELSE LET e == TagMatchEnd(s, i, name)
       IN  IF e > 0 THEN RemoveTagFrom(s, e + 1, name)
           ELSE <<s[i]>> \o RemoveTagFrom(s, i + 1, name)

RemoveTag(s, name) == RemoveTagFrom(s, 1, name)

\* The DOCTYPE pattern tried at index i: "<!DOCTYPE", anything but ">", ">".
DoctypeEnd(s, i) ==
  IF i + 1 <= Len(s) /\ s[i] = "<" /\ Lower(s[i + 1]) = "!doctype"
    THEN FirstGt(s, i + 2)
    ELSE 0

RECURSIVE RemoveDoctypeFrom(_, _)
RemoveDoctypeFrom(s, i) ==
  IF i > Len(s) THEN <<>>
  ELSE IF s[i] # "<" THEN
    SubSeq(s, i, NextOf(s, i, {"<"}) - 1) \o RemoveDoctypeFrom(s, NextOf(s, i, {"<"}))
  ELSE LET e == DoctypeEnd(s, i)
       IN  IF e > 0 THEN RemoveDoctypeFrom(s, e + 1)
           ELSE <<s[i]>> \o RemoveDoctypeFrom(s, i + 1)

\* const withoutDoctype = rawHtml.replace(DOCTYPE pattern, "").trim();
WithoutDoctype(rawHtml) == Trim(RemoveDoctypeFrom(rawHtml, 1))

\* The branch taken when there is no window or no DOMParser.
SanitizeFallback(rawHtml) ==
  Trim(RemoveTag(RemoveTag(RemoveTag(RemoveTag(RemoveTag(
    WithoutDoctype(rawHtml), "html"), "body"), "head"), "meta"), "title"))

\* The atoms that are markup characters, not words.
Punctuation == {"<", ">", "/", " ", Tick, Quote, Backslash}

IsWord(c) == c \notin Punctuation

\* What the HTML tokenizer takes for a tag at index i: "<", an optional "/",
\* a word.  The word, or "" when no tag starts at i.
DomTagName(s, i) ==
  IF i > Len(s) \/ s[i] # "<" THEN ""
  ELSE LET k == IF i + 1 <= Len(s) /\ s[i + 1] = "/" THEN i + 2 ELSE i + 1
       IN  IF k <= Len(s) /\ IsWord(s[k]) THEN Lower(s[k]) ELSE ""

DomIsEndTag(s, i) == i + 1 <= Len(s) /\ s[i + 1] = "/"

\* The index after the end tag of name that follows index from, or Len(s) + 1
\* when the element is never closed (it then runs to the end of the input).
DomAfterEndTag(s, from, name) ==
  LET hits == { i \in from..Len(s) :
                  /\ DomTagName(s, i) = name
                  /\ DomIsEndTag(s, i)
                  /\ FirstGt(s, i) > 0 }
  IN  IF hits = {} THEN Len(s) + 1
      ELSE FirstGt(s, CHOOSE i \in hits : \A j \in hits : i <= j) + 1

\* parser.parseFromString(withoutDoctype, "text/html"), the removal of every
\* script, style, head, title, meta and link element, and doc.body.innerHTML:
\* the html, head and body tags of the input never reach the body's content,
\* a removed element goes with its content, text is serialised with "<" and
\* ">" escaped, every other tag is serialised as it was read.
RECURSIVE DomBodyFrom(_, _)
DomBodyFrom(s, i) ==
  IF i > Len(s) THEN <<>>
  ELSE IF s[i] \notin {"<", ">"} THEN
    SubSeq(s, i, NextOf(s, i, {"<", ">"}) - 1) \o DomBodyFrom(s, NextOf(s, i, {"<", ">"}))
  ELSE LET name == DomTagName(s, i)
           gt   == FirstGt(s, i)
       IN  IF name = "" THEN
             (IF s[i] = "<" THEN <<"&lt;">>
              ELSE IF s[i] = ">" THEN <<"&gt;">>
              ELSE <<s[i]>>) \o DomBodyFrom(s, i + 1)
           ELSE IF gt = 0 THEN <<>>
           ELSE IF name \in {"html", "head", "body", "meta", "link", "!doctype"}
             THEN DomBodyFrom(s, gt + 1)
           ELSE IF name \in {"script", "style", "title"} THEN
             (IF DomIsEndTag(s, i) THEN DomBodyFrom(s, gt + 1)
              ELSE DomBodyFrom(s, DomAfterEndTag(s, gt + 1, name)))
           ELSE SubSeq(s, i, gt) \o DomBodyFrom(s, gt + 1)

DomBodyInnerHTML(s) == DomBodyFrom(s, 1)

\* The branch taken in a browser.
SanitizeDom(rawHtml) ==
  LET withoutDoctype == WithoutDoctype(rawHtml)
      sanitized      == Trim(DomBodyInnerHTML(withoutDoctype))
  IN  IF sanitized # <<>> THEN sanitized ELSE withoutDoctype

\* sanitizeArticleHtml, dom telling whether window and DOMParser are defined.
SanitizeArticleHtml(rawHtml, dom) ==
  IF dom THEN SanitizeDom(rawHtml) ELSE SanitizeFallback(rawHtml)

(***************************************************************************)
(* JSON.parse.  A JSON document is written either as one atom (a document  *)
(* with no article text in it, listed in JsonDocument) or as an article    *)
(* object whose HTML string is spelled atom by atom between an opening     *)
(* atom and a closing atom, so that the fence patterns see its backticks.  *)
(***************************************************************************)
Absent == [type |-> "absent", str |-> <<>>, items |-> <<>>]
Str(chars) == [type |-> "string", str |-> chars, items |-> <<>>]
Arr(items) == [type |-> "array", str |-> <<>>, items |-> items]
Num == [type |-> "number", str |-> <<>>, items |-> <<>>]

NoField == [has |-> FALSE, val |-> ""]
Field(v) == [has |-> TRUE, val |-> v]

\* An element of the trends array.
Elem(topic, summary) == [type |-> "object", topic |-> topic, summary |-> summary]
NullElem == [type |-> "null", topic |-> NoField, summary |-> NoField]

EmptyObject ==
  [kind |-> "object", trends |-> Absent, articleHtml |-> Absent,
   article_html |-> Absent, seoKeywords |-> Absent, seo_keywords |-> Absent]

JsonNull == [EmptyObject EXCEPT !.kind = "null"]
JsonNumber == [EmptyObject EXCEPT !.kind = "number"]

Trends(items) == [EmptyObject EXCEPT !.trends = Arr(items)]

ElemA == Elem(Field("A"), Field("a"))
ElemB == Elem(Field("B"), Field("b"))
ElemC == Elem(Field("C"), Field("c"))

\* The documents written as one atom.
JsonDocument ==
  [ J_null           |-> JsonNull,
    J_number         |-> JsonNumber,
    J_object         |-> EmptyObject,
    J_trends_string  |-> [EmptyObject EXCEPT !.trends = Str(<<"x">>)],
    J_trends_empty   |-> Trends(<<>>),
    J_trends_A       |-> Trends(<<ElemA>>),
    J_trends_AB      |-> Trends(<<ElemA, ElemB>>),
    J_trends_ABC     |-> Trends(<<ElemA, ElemB, ElemC>>),
    J_trends_no_summary |-> Trends(<<ElemA, Elem(Field("B"), NoField)>>),
    J_trends_no_topic   |-> Trends(<<Elem(NoField, Field("b"))>>),
    J_trends_null_elem  |-> Trends(<<NullElem, ElemA>>),
    J_html_number    |-> [EmptyObject EXCEPT !.articleHtml = Num,
                                             !.seoKeywords = Arr(<<Str(<<"k">>)>>)] ]

\* The atoms that open and close an article object spelled atom by atom.
OpenAtoms == {"{articleHtml:", "{article_html:"}
MidAtoms == {",article_html:"}

\* What follows the HTML string: the end of the object, or the keyword field.
CloseFields ==
  [ close_plain   |-> [seoKeywords |-> Absent, seo_keywords |-> Absent],
    close_camel   |-> [seoKeywords |-> Arr(<<Str(<<"a">>), Str(<<" ", "b">>), Str(<<"a">>)>>),
                        seo_keywords |-> Absent],
    close_snake   |-> [seoKeywords |-> Absent,
                        seo_keywords |-> Arr(<<Str(<<"a">>), Num, Str(<<" ">>), Str(<<"b">>)>>)],
    close_string  |-> [seoKeywords |-> Str(<<"a">>), seo_keywords |-> Absent],
    close_case    |-> [seoKeywords |-> Arr(<<Str(<<"a">>), Str(<<"A">>), Str(<<" ", "a", " ">>)>>),
                        seo_keywords |-> Arr(<<Str(<<"b">>)>>)] ]

CloseAtoms == DOMAIN CloseFields

JsonStructural == OpenAtoms \cup MidAtoms \cup CloseAtoms

\* A character a JSON string holds unescaped.
IsStringChar(c) == c \notin JsonStructural \cup {Quote, Backslash}

AllStringChars(s) == \A i \in 1..Len(s) : IsStringChar(s[i])

SyntaxErrorResult == [ok |-> FALSE, value |-> JsonNull]

\* JSON.parse(text): ok is FALSE where JSON.parse throws a SyntaxError.
JSONParse(text) ==
  LET t == Trim(text)
      n == Len(t)
  IN  IF n = 1 /\ t[1] \in DOMAIN JsonDocument
        THEN [ok |-> TRUE, value |-> JsonDocument[t[1]]]
      ELSE IF n >= 2 /\ t[1] \in OpenAtoms /\ t[n] \in CloseAtoms THEN
        LET inner == SubSeq(t, 2, n - 1)
            mids  == { i \in 1..Len(inner) : inner[i] \in MidAtoms }
            close == CloseFields[t[n]]
        IN  IF mids = {} /\ AllStringChars(inner) THEN
              [ok |-> TRUE,
               value |-> [EmptyObject EXCEPT
                 !.articleHtml = IF t[1] = "{articleHtml:" THEN Str(inner) ELSE Absent,
                 !.article_html = IF t[1] = "{article_html:" THEN Str(inner) ELSE Absent,
                 !.seoKeywords = close.seoKeywords,
                 !.seo_keywords = close.seo_keywords]]
            ELSE IF Cardinality(mids) = 1 /\ t[1] = "{articleHtml:" THEN
              LET m     == CHOOSE i \in mids : TRUE
                  first == SubSeq(inner, 1, m - 1)
                  second == SubSeq(inner, m + 1, Len(inner))
              IN  IF AllStringChars(first) /\ AllStringChars(second) THEN
                    [ok |-> TRUE,
                     value |-> [EmptyObject EXCEPT
                       !.articleHtml = Str(first),
                       !.article_html = Str(second),
                       !.seoKeywords = close.seoKeywords,
                       !.seo_keywords = close.seo_keywords]]
                  ELSE SyntaxErrorResult
            ELSE SyntaxErrorResult
      ELSE SyntaxErrorResult

(***************************************************************************)
(* Errors.  A message is the sequence of its parts, so that a prefix       *)
(* followed by an underlying message is their concatenation.               *)
(***************************************************************************)
TOPIC_REQUIRED == <<"Topic is required.">>
INVALID_FORMAT == <<"Invalid response format from API. Expected a 'trends' array.">>
PARSE_FAILED_API == <<"Failed to parse the JSON response from the API. Please try again.">>
PARSE_FAILED_MODEL == <<"Failed to parse the JSON response from the model. Please try again.">>
EMPTY_RESPONSE == <<"The model returned an empty response.">>
EMPTY_ARTICLE == <<"The model returned an empty article.">>
MISSING_HTML == <<"The model response did not include an articleHtml value.">>

TopicFns == {"fetchTrendingTopics", "fetchRailwayTopics"}
\* generateRailwayArticle is there twice: as railwayService.ts has it, and as
\* the later railway service has it, which reads a JSON payload.
ArticleFns ==
  {"generateDetailedSummary", "generateRailwayArticle", "generateArticle",
   "generateRailwayArticle (JSON)"}

\* The prefix each catch block puts before the message of an Error.
ErrorPrefix(f) ==
  CASE f = "fetchTrendingTopics"     -> "Failed to fetch news trends: "
    [] f = "fetchRailwayTopics"      -> "Failed to fetch railway trends: "
    [] f = "generateDetailedSummary" -> "Failed to generate details: "
    [] f = "generateRailwayArticle"  -> "Failed to generate railway article: "
    [] f = "generateRailwayArticle (JSON)" -> "Failed to generate railway article: "
    [] f = "generateArticle"         -> "Failed to generate article: "

\* The message each catch block gives a thrown value that is no Error.
UnknownError(f) ==
  CASE f = "fetchTrendingTopics"     -> <<"An unknown error occurred while fetching news trends.">>
    [] f = "fetchRailwayTopics"      -> <<"An unknown error occurred while fetching railway topics.">>
    [] f = "generateDetailedSummary" -> <<"An unknown error occurred while generating details.">>
    [] f = "generateRailwayArticle"  -> <<"An unknown error occurred while generating the railway article.">>
    [] f = "generateRailwayArticle (JSON)" -> <<"An unknown error occurred while generating the railway article.">>
    [] f = "generateArticle"         -> <<"An unknown error occurred while generating the article.">>

\* A thrown value: an Error of some name with a message, or something else.
ErrorOf(name, message) == [isError |-> TRUE, name |-> name, message |-> message]
NotAnError == [isError |-> FALSE, name |-> "", message |-> <<>>]
NullTypeError(key) ==
  ErrorOf("TypeError", <<"Cannot read properties of null (reading '", key, "')">>)

\* The catch block of fetchTrendingTopics and fetchRailwayTopics.
CatchTopics(f, thrown) ==
  IF thrown.isError
    THEN IF thrown.name = "SyntaxError" THEN PARSE_FAILED_API
         ELSE <<ErrorPrefix(f)>> \o thrown.message
    ELSE UnknownError(f)

\* A catch block that drops the message of the Error it caught.
CatchArticleDropsMessage(f, thrown) == UnknownError(f)

\* The catch block of the article functions.
CatchArticle(f, thrown) ==
  IF thrown.isError THEN <<ErrorPrefix(f)>> \o thrown.message
  ELSE UnknownError(f)

(***************************************************************************)
(* The response of the remote model call.                                  *)
(***************************************************************************)
\* level: how much of candidates[0].groundingMetadata.groundingChunks is there.
Grounding(level, chunks) == [level |-> level, chunks |-> chunks]
Chunk(uri, title) == [uri |-> uri, title |-> title]

Resolved(text, grounding) ==
  [threw |-> FALSE, thrown |-> NotAnError, text |-> text, grounding |-> grounding]
Rejected(thrown) ==
  [threw |-> TRUE, thrown |-> thrown, text |-> <<>>,
   grounding |-> Grounding("candidates", <<>>)]

OrEmpty(field) == IF field.has THEN field.val ELSE ""

\* An extraction that keeps the chunks without uri.
ExtractGroundingSourcesUnfiltered(grounding) ==
  IF grounding.level # "chunks" THEN <<>>
  ELSE [i \in 1..Len(grounding.chunks) |->
          [uri   |-> OrEmpty(grounding.chunks[i].uri),
           title |-> OrEmpty(grounding.chunks[i].title)]]

\* groundingChunks?.map(...).filter((source) => source.uri) ?? []
ExtractGroundingSources(grounding) ==
  IF grounding.level # "chunks" THEN <<>>
  ELSE LET mapped == [i \in 1..Len(grounding.chunks) |->
                        [uri   |-> OrEmpty(grounding.chunks[i].uri),
                         title |-> OrEmpty(grounding.chunks[i].title)]]
       IN  SelectSeq(mapped, LAMBDA source : source.uri # "")

(***************************************************************************)
(* What a service function settles with.                                   *)
(***************************************************************************)
Failure(message) ==
  [ok |-> FALSE, message |-> message, topics |-> <<>>, html |-> <<>>,
   seoKeywords |-> <<>>, sources |-> <<>>]
TopicsResult(topics) ==
  [ok |-> TRUE, message |-> <<>>, topics |-> topics, html |-> <<>>,
   seoKeywords |-> <<>>, sources |-> <<>>]
ArticleResult(html, seoKeywords, sources) ==
  [ok |-> TRUE, message |-> <<>>, topics |-> <<>>, html |-> html,
   seoKeywords |-> seoKeywords, sources |-> sources]

\* What a try block ends with: a returned value or a thrown one.
Returns(outcome) == [thrown |-> FALSE, error |-> NotAnError, outcome |-> outcome]
Throws(error) == [thrown |-> TRUE, error |-> error, outcome |-> Failure(<<>>)]

\* A mapping that attaches no sources.
WithoutSources(elem, sources) ==
  [topic |-> elem.topic, summary |-> elem.summary, sources |-> <<>>]

\* parsed.trends.map((topic) => ({ ...topic, sources }))
WithSources(elem, sources) ==
  [topic |-> elem.topic, summary |-> elem.summary, sources |-> sources]

\* if (!parsed.trends || !Array.isArray(parsed.trends)) throw ...; map
TopicsFromParsed(parsed, sources) ==
  IF ~parsed.ok THEN Throws(ErrorOf("SyntaxError", <<"Unexpected token">>))
  ELSE IF parsed.value.kind = "null" THEN Throws(NullTypeError("trends"))
  ELSE IF parsed.value.trends.type # "array" THEN Throws(ErrorOf("Error", INVALID_FORMAT))
  ELSE Returns(TopicsResult(
         [i \in 1..Len(parsed.value.trends.items) |->
            WithSources(parsed.value.trends.items[i], sources)]))

\* The try block of fetchTrendingTopics, and of fetchRailwayTopics up to the shuffle.
TopicsTry(response) ==
  IF response.threw THEN Throws(response.thrown)
  ELSE TopicsFromParsed(JSONParse(UnwrapJsonFence(response.text)),
                        ExtractGroundingSources(response.grounding))

\* The catch block of a topic-list function around what its try block ended with.
TopicsSettled(f, t) ==
  IF t.thrown THEN Failure(CatchTopics(f, t.error)) ELSE t.outcome

\* fetchTrendingTopics, from the response of the remote call on.
FetchTrendingTopics(response) ==
  TopicsSettled("fetchTrendingTopics", TopicsTry(response))

\* An exchange that loses the element at i.
SwapOverwriting(list, i, j) == [list EXCEPT ![i] = list[j]]

Swap(list, i, j) == [list EXCEPT ![i] = list[j], ![j] = list[i]]

\* for (let i = length - 1; i > 0; i -= 1) { j = floor(random * (i + 1)); swap }
\* with positions counted from 1: draws[i] is the j drawn for position i.
RECURSIVE ShuffleFrom(_, _, _)
ShuffleFrom(list, i, draws) ==
  IF i <= 1 THEN list ELSE ShuffleFrom(Swap(list, i, draws[i]), i - 1, draws)

Shuffle(list, draws) == ShuffleFrom(list, Len(list), draws)

\* The draws of a shuffle whose j is Math.floor(Math.random() * i).
DrawsBelowPosition(n) == { d \in [2..n -> 1..n] : \A i \in 2..n : d[i] < i }

\* The draws Math.random can give for a list of n topics.
Draws(n) == { d \in [2..n -> 1..n] : \A i \in 2..n : d[i] <= i }

\* The shuffle at the end of the try block of fetchRailwayTopics.
ShuffledTry(t, draws) ==
  IF t.thrown THEN t ELSE Returns(TopicsResult(Shuffle(t.outcome.topics, draws)))

\* fetchRailwayTopics, from the response of the remote call on.
FetchRailwayTopics(response, draws) ==
  TopicsSettled("fetchRailwayTopics", ShuffledTry(TopicsTry(response), draws))

\* keyword => (typeof keyword === "string" ? keyword.trim() : "")
TrimmedKeywords(rawKeywords) ==
  [i \in 1..Len(rawKeywords) |->
     IF rawKeywords[i].type = "string" THEN Trim(rawKeywords[i].str) ELSE <<>>]

\* filter((keyword, index, array) => Boolean(keyword) && array.indexOf(keyword) === index)
RECURSIVE FirstOccurrences(_, _)
FirstOccurrences(mapped, i) ==
  IF i > Len(mapped) THEN <<>>
  ELSE (IF mapped[i] # <<>> /\ \A j \in 1..(i - 1) : mapped[j] # mapped[i]
          THEN <<mapped[i]>> ELSE <<>>)
       \o FirstOccurrences(mapped, i + 1)

\* A filter that keeps every keyword that is not empty, repeated or not.
KeywordsKeepingDuplicates(rawKeywords) ==
  SelectSeq(TrimmedKeywords(rawKeywords), LAMBDA keyword : keyword # <<>>)

Keywords(rawKeywords) == FirstOccurrences(TrimmedKeywords(rawKeywords), 1)

\* A choice of the HTML field that takes article_html before articleHtml.
RawHtmlSnakeFirst(v) ==
  IF v.article_html.type = "string" THEN v.article_html.str
  ELSE IF v.articleHtml.type = "string" THEN v.articleHtml.str
  ELSE <<>>

\* typeof parsed.articleHtml === "string" ? ... : typeof parsed.article_html ...
RawHtml(v) ==
  IF v.articleHtml.type = "string" THEN v.articleHtml.str
  ELSE IF v.article_html.type = "string" THEN v.article_html.str
  ELSE <<>>

\* Array.isArray(parsed.seoKeywords) ? ... : Array.isArray(parsed.seo_keywords) ...
RawKeywords(v) ==
  IF v.seoKeywords.type = "array" THEN v.seoKeywords.items
  ELSE IF v.seo_keywords.type = "array" THEN v.seo_keywords.items
  ELSE <<>>

\* if (!html) throw ...; keywords; return
ArticleFromHtml(html, v, sources) ==
  IF html = <<>> THEN Throws(ErrorOf("Error", EMPTY_ARTICLE))
  ELSE Returns(ArticleResult(html, Keywords(RawKeywords(v)), sources))

\* if (!rawHtml) throw ...; sanitizeArticleHtml(stripCodeFences(rawHtml))
ArticleFromRawHtml(rawHtml, v, dom, sources) ==
  IF rawHtml = <<>> THEN Throws(ErrorOf("Error", MISSING_HTML))
  ELSE ArticleFromHtml(SanitizeArticleHtml(StripCodeFences(rawHtml), dom), v, sources)

\* try { parsed = JSON.parse(payloadText) } catch { throw ... }; the HTML field
ArticleFromParsed(parsed, dom, sources) ==
  IF ~parsed.ok THEN Throws(ErrorOf("Error", PARSE_FAILED_MODEL))
  ELSE IF parsed.value.kind = "null" THEN Throws(NullTypeError("articleHtml"))
  ELSE ArticleFromRawHtml(RawHtml(parsed.value), parsed.value, dom, sources)

\* if (!payloadText) throw ...; JSON.parse
ArticleFromPayload(payloadText, dom, sources) ==
  IF payloadText = <<>> THEN Throws(ErrorOf("Error", EMPTY_RESPONSE))
  ELSE ArticleFromParsed(JSONParse(payloadText), dom, sources)

\* The try block of generateDetailedSummary, generateArticle and the later
\* generateRailwayArticle: JSON payload, HTML field, sanitizer, keywords.
ArticleTry(response, dom, withSources) ==
  IF response.threw THEN Throws(response.thrown)
  ELSE ArticleFromPayload(ExtractJsonPayload(response.text), dom,
         IF withSources THEN ExtractGroundingSources(response.grounding) ELSE <<>>)

\* The catch block of an article function around what its try block ended with.
ArticleSettled(f, t) ==
  IF t.thrown THEN Failure(CatchArticle(f, t.error)) ELSE t.outcome

\* generateDetailedSummary of geminiService.ts, from the response on.
GenerateDetailedSummary(response, dom) ==
  ArticleSettled("generateDetailedSummary", ArticleTry(response, dom, FALSE))

\* generateArticle of the article generator service, from the response on.
GenerateArticle(response, dom) ==
  ArticleSettled("generateArticle", ArticleTry(response, dom, TRUE))

\* generateRailwayArticle of the later railway service, from the response on.
GenerateRailwayArticleJson(response, dom) ==
  ArticleSettled("generateRailwayArticle (JSON)", ArticleTry(response, dom, FALSE))

\* if (!html) throw ...; return html
RailwayArticleFromHtml(html) ==
  IF html = <<>> THEN Throws(ErrorOf("Error", EMPTY_RESPONSE))
  ELSE Returns(ArticleResult(html, <<>>, <<>>))

\* The try block of generateRailwayArticle of railwayService.ts.
RailwayArticleTry(response) ==
  IF response.threw THEN Throws(response.thrown)
  ELSE RailwayArticleFromHtml(StripCodeFences(response.text))

\* generateRailwayArticle of railwayService.ts, from the response on.
GenerateRailwayArticle(response) ==
  ArticleSettled("generateRailwayArticle", RailwayArticleTry(response))

(***************************************************************************)
(* Prompt builders.  The fixed text of a template is one atom.             *)
(***************************************************************************)
\* buildArticlePrompt of geminiService.ts
BuildArticlePrompt(topic) ==
  <<"Based on the news topic ", Quote>> \o EscapeDoubleQuotesGemini(topic)
    \o <<Quote, ", please perform the following task: ...">>

\* buildPrompt of the article generator service
BuildPrompt(topic) ==
  <<"Based on the news topic ", Quote>> \o EscapeDoubleQuotesArticle(topic)
    \o <<Quote, ", please perform the following task: ...">>

\* buildRailwayArticlePrompt of railwayService.ts
BuildRailwayArticlePrompt(topic) ==
  <<"You are an expert travel journalist ... Write an original article of roughly 800 words about ", Quote>>
    \o EscapeDoubleQuotesRailway(topic)
    \o <<Quote, ". Prioritize rich storytelling ...">>

\* The menu fetchRailwayTopics draws its focus hint from.
ThematicEmphases ==
  { "coastal journeys and seaside vistas",
    "highland escapes and cool-climate adventures",
    "luxury train experiences and premium comfort",
    "family-friendly itineraries and gentle excursions",
    "photography hotspots and dramatic landscapes",
    "culinary discoveries and station-side flavors",
    "heritage locomotives and railway history",
    "wellness getaways and slow travel retreats",
    "festivals, cultural events, and trackside celebrations",
    "eco-conscious travel and sustainable initiatives" }

\* Math.random().toString(36).slice(2, 10)
SessionSalts == {"k3v9x2ab"}

TrendingTopicsPrompt == <<"List the top 20 trending positive or uplifting news topics ...">>

RailwayTopicsPrompt(sessionSalt, focusHint) ==
  <<"You are curating ideas ... The current session salt is ", Quote, sessionSalt,
    Quote, " ... place a gentle emphasis on ", focusHint, " ...">>

\* The contents an article function sends for a topic that passed the check.
ArticleContents(f, topic) ==
  CASE f = "generateDetailedSummary" -> BuildArticlePrompt(Trim(topic))
    [] f = "generateRailwayArticle"  -> BuildRailwayArticlePrompt(Trim(topic))
    [] f = "generateRailwayArticle (JSON)" -> BuildRailwayArticlePrompt(Trim(topic))
    [] f = "generateArticle"         -> BuildPrompt(Trim(topic))

\* A topic check that takes only the empty string for a missing topic.
TopicMissingUntrimmed(topic) == topic = <<>>

\* if (!topic.trim()) throw new Error("Topic is required.")
TopicMissing(topic) == Trim(topic) = <<>>

\* What a function does with the response of its remote call.
Settle(f, response, dom, draws) ==
  CASE f = "fetchTrendingTopics"     -> FetchTrendingTopics(response)
    [] f = "fetchRailwayTopics"      -> FetchRailwayTopics(response, draws)
    [] f = "generateDetailedSummary" -> GenerateDetailedSummary(response, dom)
    [] f = "generateRailwayArticle"  -> GenerateRailwayArticle(response)
    [] f = "generateRailwayArticle (JSON)" -> GenerateRailwayArticleJson(response, dom)
    [] f = "generateArticle"         -> GenerateArticle(response, dom)

(***************************************************************************)
(* The inputs explored: topics, response texts, grounding metadata and     *)
(* thrown values.  A text is the concatenation of at most MaxTokens        *)
(* chunks.                                                                 *)
(***************************************************************************)
FENCE == <<Tick, Tick, Tick>>

Texts(chunks) == { Flatten(ts) : ts \in SeqsUpTo(chunks, MaxTokens) }

\* HTML with fences and tags of either case around it.
FenceChunks ==
  { FENCE, FENCE \o <<"HTML">>, FENCE \o <<"json">>, <<Tick>>, <<" ">>, <<"x">> }

\* HTML with wrapper tags, whole and in pieces.
TagChunks ==
  { <<"<", "html", ">">>, <<"<", "p", ">">>, <<"<">>, <<">">>, <<"html">>,
    <<" ">>, <<"x">> }

\* The chunks of tags are longer, so a text of them is made of one chunk fewer.
TagTexts == { Flatten(ts) : ts \in SeqsUpTo(TagChunks, MaxTokens - 1) }

HtmlTexts == Texts(FenceChunks) \cup TagTexts

FewHtml == { <<>>, <<" ">>, <<"<", "p", ">", "x">>, <<"<", "html", ">">> }

\* An article object around an HTML string.
ArticleDoc(open, html, close) == <<open>> \o html \o <<close>>

PlainDoc(html) == ArticleDoc("{articleHtml:", html, "close_plain")

\* Article objects with a few HTML strings under either key or both, and the
\* documents without article.
FewArticleDocs ==
  { ArticleDoc(open, html, close) :
             open \in OpenAtoms, html \in FewHtml, close \in CloseAtoms }
    \cup { <<"{articleHtml:">> \o first \o <<",article_html:">> \o second \o <<close>> :
             first \in FewHtml, second \in FewHtml, close \in {"close_plain", "close_snake"} }
    \cup { <<d>> : d \in {"J_null", "J_number", "J_object", "J_html_number"} }

ArticleDocs == { PlainDoc(html) : html \in HtmlTexts } \cup FewArticleDocs

\* What the model may put around a JSON document.
FrameChunks(doc) ==
  { FENCE, FENCE \o <<"JSON">>, <<" ">>, <<"x">>, doc }

FramedTexts(docs) == UNION { Texts(FrameChunks(doc)) : doc \in docs }

TopicDocs ==
  { <<d>> : d \in {"J_null", "J_number", "J_object", "J_trends_string",
                   "J_trends_empty", "J_trends_A", "J_trends_AB", "J_trends_ABC",
                   "J_trends_no_summary", "J_trends_no_topic", "J_trends_null_elem"} }

TopicTexts == TopicDocs \cup FramedTexts({<<"J_trends_AB">>, <<"J_object">>})

FramedArticleTexts == FramedTexts({PlainDoc(<<"<", "p", ">", "x">>), PlainDoc(<<" ">>)})

JsonArticleTexts == ArticleDocs \cup FramedArticleTexts

NoGrounding == Grounding("candidates", <<>>)

Groundings ==
  { NoGrounding, Grounding("groundingMetadata", <<>>), Grounding("chunks", <<>>),
    Grounding("chunks", <<Chunk(Field(""), Field("t")), Chunk(Field("u"), NoField),
                          Chunk(NoField, NoField), Chunk(Field("u"), Field("t"))>>) }

\* What the remote call may throw.
ThrownValues ==
  { ErrorOf("Error", <<"network down">>), ErrorOf("SyntaxError", <<"Unexpected end of JSON input">>),
    ErrorOf("ApiError", <<>>), NotAnError }

\* The texts a function may receive.  The three functions that read a JSON
\* payload run the same extraction; one of them is given every HTML string.
TextsFor(f) ==
  CASE f \in TopicFns -> TopicTexts
    [] f = "generateRailwayArticle" -> HtmlTexts
    [] f = "generateDetailedSummary" -> JsonArticleTexts
    [] OTHER -> FewArticleDocs \cup FramedArticleTexts

FewTextsFor(f) ==
  CASE f \in TopicFns -> {<<"J_trends_AB">>, <<" ">>}
    [] f = "generateRailwayArticle" -> {<<"<", "p", ">", "x">>, <<>>}
    [] OTHER -> {PlainDoc(<<"<", "p", ">", "x">>), <<>>}

\* The responses explored for f: every text without grounding metadata, and a
\* few texts with every grounding metadata.
ResolvedResponses(f) ==
  { Resolved(text, NoGrounding) : text \in TextsFor(f) }
    \cup { Resolved(text, g) : text \in FewTextsFor(f), g \in Groundings }

FewResponses(f) == { Resolved(text, NoGrounding) : text \in FewTextsFor(f) }

TopicAtoms == {"a", " ", Quote}

Topics == SeqsUpTo(TopicAtoms, MaxTopicLen)

FewTopics == { <<>>, <<"a">> }

(***************************************************************************)
(* State.  One client uses the services in a behaviour: a caller of the    *)
(* service functions, the article generator page or the railway page.      *)
(***************************************************************************)
VARIABLES
  client,    \* "caller", "generatorPage" or "railwayPage"
  dom,       \* whether window and DOMParser are defined
  \* the caller's current invocation of a service function
  pc,        \* "idle", "requesting", "succeeded" or "failed"
  fn,        \* the function invoked
  topic,     \* its topic argument
  request,   \* the contents of the remote call in flight
  response,  \* what the remote call settled with
  outcome,   \* what the function settled with
  calls,     \* remote calls issued by this invocation
  settles,   \* times this invocation settled
  step,      \* what made the last step: the caller or the remote call
  \* ArticleGeneratorPage
  gen,         \* its useState values
  genInFlight, \* generateArticle calls awaiting their response
  genStep,     \* the handler that ran last
  \* RailwayTopicsPage
  rail,         \* its useState values
  railInFlight, \* the loadTopics calls awaiting their response, by order of issue
  railIssued,   \* loadTopics calls made so far
  railOverlap,  \* whether a loadTopics call was made while another was in flight
  railLast,     \* the call that settled last and what fetchRailwayTopics settled with
  \* HomePage
  home,         \* its useState values
  homeInFlight, \* fetchTrendingTopics calls awaiting their response
  homeStep,     \* the handler that ran last
  \* sanitizeArticleHtml applied to a fragment and to its own results
  fragment,     \* the fragment given first
  sanitized,    \* what each application returned, in order
  \* a TopicCard
  card,         \* its props topic and generate, and its useState values
  cardInFlight, \* generate calls awaiting their result
  cardStep,     \* the handler that ran last
  cardLast,     \* what generate settled with last
  \* truncateWithEllipsis applied to a value
  given,        \* its first argument, value
  limit,        \* its second argument, maxLength
  shortened     \* what it returned, once applied

callerVars == <<pc, fn, topic, request, response, outcome, calls, settles, step>>
genVars == <<gen, genInFlight, genStep>>
railVars == <<rail, railInFlight, railIssued, railOverlap, railLast>>
homeVars == <<home, homeInFlight, homeStep>>
sanVars == <<fragment, sanitized>>
cardVars == <<card, cardInFlight, cardStep, cardLast>>
truncVars == <<given, limit, shortened>>

vars == <<client, dom, callerVars, genVars, railVars, homeVars, sanVars, cardVars, truncVars>>

NoResponse == Resolved(<<>>, NoGrounding)
NoOutcome == Failure(<<>>)

\* A nullable value of useState.
None == [some |-> FALSE, val |-> <<>>]
Some(v) == [some |-> TRUE, val |-> v]

DEFAULT_MODEL == "gemini-2.5-flash"
GEMINI_MODEL_OPTIONS == {"gemini-2.5-flash", "gemini-2.0-flash", "gemini-1.5-pro-latest"}

CallerInit ==
  /\ pc = "idle"
  /\ fn = "none"
  /\ topic = <<>>
  /\ request = <<>>
  /\ response = NoResponse
  /\ outcome = NoOutcome
  /\ calls = 0
  /\ settles = 0
  /\ step = "none"

\* The useState initial values of ArticleGeneratorPage.
GenInit ==
  /\ gen = [topic |-> <<>>, articleHtml |-> None, sources |-> <<>>,
            seoKeywords |-> <<>>, selectedKeyword |-> None,
            metaDescription |-> None, isLoading |-> FALSE, error |-> None]
  /\ genInFlight = 0
  /\ genStep = "none"

RailInitial ==
  [topics |-> None, isLoading |-> FALSE, error |-> None, model |-> DEFAULT_MODEL]

NoSettled == [id |-> 0, outcome |-> NoOutcome]

\* The useState initial values of RailwayTopicsPage.
RailInit ==
  /\ rail = RailInitial
  /\ railInFlight = {}
  /\ railIssued = 0
  /\ railOverlap = FALSE
  /\ railLast = NoSettled

\* The useState initial values of HomePage.
HomeInit ==
  /\ home = [topics |-> None, isLoading |-> FALSE, error |-> None, model |-> DEFAULT_MODEL]
  /\ homeInFlight = 0
  /\ homeStep = "none"

\* The useState initial values of a TopicCard, for props of no interest.
CardInitial(t, generate) ==
  [topic |-> t, generate |-> generate, detailedSummary |-> None,
   isGenerating |-> FALSE, error |-> None]

CardInit ==
  /\ card = CardInitial(<<>>, "generateDetailedSummary")
  /\ cardInFlight = 0
  /\ cardStep = "none"
  /\ cardLast = NoOutcome

\* No value given to truncateWithEllipsis yet.
TruncInit ==
  /\ given = <<>>
  /\ limit = 0
  /\ shortened = None

\* No fragment given to sanitizeArticleHtml yet.
SanInit ==
  /\ fragment = <<>>
  /\ sanitized = <<>>

\* A caller of the service functions, with or without a DOM.
Init ==
  /\ client = "caller"
  /\ dom \in BOOLEAN
  /\ CallerInit
  /\ GenInit
  /\ RailInit
  /\ HomeInit
  /\ SanInit
  /\ CardInit
  /\ TruncInit

\* The caller invokes fetchTrendingTopics or fetchRailwayTopics.
InvokeTopics(f, contents) ==
  /\ client = "caller"
  /\ pc \in {"idle", "succeeded", "failed"}
  /\ fn' = f
  /\ topic' = <<>>
  /\ request' = contents
  /\ pc' = "requesting"
  /\ calls' = 1
  /\ settles' = 0
  /\ response' = NoResponse
  /\ outcome' = NoOutcome
  /\ step' = "caller"
  /\ UNCHANGED <<client, dom, truncVars, sanVars, cardVars, genVars, railVars, homeVars>>

\* The caller invokes an article function with a topic.
InvokeArticle(f, t) ==
  /\ client = "caller"
  /\ pc \in {"idle", "succeeded", "failed"}
  /\ fn' = f
  /\ topic' = t
  /\ response' = NoResponse
  /\ step' = "caller"
  /\ IF TopicMissing(t)
       THEN /\ pc' = "failed"
            /\ request' = <<>>
            /\ calls' = 0
            /\ settles' = 1
            /\ outcome' = Failure(TOPIC_REQUIRED)
       ELSE /\ pc' = "requesting"
            /\ request' = ArticleContents(f, t)
            /\ calls' = 1
            /\ settles' = 0
            /\ outcome' = NoOutcome
  /\ UNCHANGED <<client, dom, truncVars, sanVars, cardVars, genVars, railVars, homeVars>>

\* A function that answers a failure by issuing its remote call again.
RemoteSettlesRetrying(r, draws) ==
  /\ pc = "requesting"
  /\ response' = r
  /\ outcome' = Settle(fn, r, dom, draws)
  /\ IF outcome'.ok
       THEN pc' = "succeeded" /\ request' = <<>> /\ settles' = settles + 1
            /\ calls' = calls
       ELSE pc' = "requesting" /\ request' = request /\ settles' = settles
            /\ calls' = calls + 1
  /\ step' = "remote"
  /\ UNCHANGED <<fn, topic, client, dom, truncVars, sanVars, cardVars, genVars, railVars, homeVars>>

\* The remote call settles and the function runs to its return or throw.
RemoteSettles(r, draws) ==
  /\ pc = "requesting"
  /\ response' = r
  /\ outcome' = Settle(fn, r, dom, draws)
  /\ pc' = IF outcome'.ok THEN "succeeded" ELSE "failed"
  /\ request' = <<>>
  /\ settles' = settles + 1
  /\ step' = "remote"
  /\ UNCHANGED <<fn, topic, calls, client, dom, truncVars, sanVars, cardVars, genVars, railVars, homeVars>>

\* The draws the shuffle of fetchRailwayTopics makes on this response.
DrawsFor(f, r) ==
  IF f = "fetchRailwayTopics" /\ ~TopicsTry(r).thrown
    THEN Draws(Len(TopicsTry(r).outcome.topics))
    ELSE {<<>>}

RemoteResolves ==
  /\ pc = "requesting"
  /\ \E r \in ResolvedResponses(fn) : \E draws \in DrawsFor(fn, r) : RemoteSettles(r, draws)

RemoteRejects ==
  /\ pc = "requesting"
  /\ \E thrown \in ThrownValues : RemoteSettles(Rejected(thrown), <<>>)

InvokeTrending == InvokeTopics("fetchTrendingTopics", TrendingTopicsPrompt)

InvokeRailway ==
  \E sessionSalt \in SessionSalts, focusHint \in ThematicEmphases :
    InvokeTopics("fetchRailwayTopics", RailwayTopicsPrompt(sessionSalt, focusHint))

Next ==
  \/ InvokeTrending
  \/ InvokeRailway
  \/ \E f \in ArticleFns, t \in FewTopics : InvokeArticle(f, t)
  \/ RemoteResolves
  \/ RemoteRejects

Spec == Init /\ [][Next]_vars

(***************************************************************************)
(* ArticleGeneratorPage.  The submit event of the form runs handleGenerate *)
(* whether or not the button is disabled; the handler has its own check    *)
(* of the topic.  A generateArticle call in flight is counted, not kept:   *)
(* what the remote call answers does not depend on what it was sent.       *)
(***************************************************************************)
PLEASE_ENTER_TOPIC == <<"Please enter a topic before generating.">>

\* onChange of the topic input: setTopic(event.target.value)
GenSetTopic(t) ==
  /\ client = "generatorPage"
  /\ t # gen.topic
  /\ gen' = [gen EXCEPT !.topic = t]
  /\ genStep' = "setTopic"
  /\ UNCHANGED <<genInFlight, client, dom, truncVars, sanVars, cardVars, callerVars, railVars, homeVars>>

\* handleGenerate without its setSelectedKeyword(null) and setMetaDescription(null).
GenHandleGenerateKeepingKeyword ==
  /\ client = "generatorPage"
  /\ genStep' = "handleGenerate"
  /\ IF TopicMissing(gen.topic)
       THEN /\ gen' = [gen EXCEPT !.error = Some(PLEASE_ENTER_TOPIC)]
            /\ UNCHANGED genInFlight
       ELSE /\ genInFlight < MaxRequests
            /\ ~TopicMissing(Trim(gen.topic))
            /\ gen' = [gen EXCEPT !.isLoading = TRUE, !.error = None,
                                  !.articleHtml = None, !.sources = <<>>,
                                  !.seoKeywords = <<>>]
            /\ genInFlight' = genInFlight + 1
  /\ UNCHANGED <<client, dom, truncVars, sanVars, cardVars, callerVars, railVars, homeVars>>

\* handleGenerate up to its await: the topic check, the resets, and the call of
\* generateArticle with the trimmed topic, which passes the check of its own
\* and issues the remote call.
GenHandleGenerate ==
  /\ client = "generatorPage"
  /\ genStep' = "handleGenerate"
  /\ IF TopicMissing(gen.topic)
       THEN /\ gen' = [gen EXCEPT !.error = Some(PLEASE_ENTER_TOPIC)]
            /\ UNCHANGED genInFlight
       ELSE /\ genInFlight < MaxRequests
            /\ ~TopicMissing(Trim(gen.topic))
            /\ gen' = [gen EXCEPT !.isLoading = TRUE, !.error = None,
                                  !.articleHtml = None, !.sources = <<>>,
                                  !.seoKeywords = <<>>, !.selectedKeyword = None,
                                  !.metaDescription = None]
            /\ genInFlight' = genInFlight + 1
  /\ UNCHANGED <<client, dom, truncVars, sanVars, cardVars, callerVars, railVars, homeVars>>

\* handleGenerate after its await, on what generateArticle settled with.  The
\* service throws Error objects only, so the catch block sets err.message.
GenSettles(settled) ==
  /\ client = "generatorPage"
  /\ genInFlight > 0
  /\ genInFlight' = genInFlight - 1
  /\ gen' = IF settled.ok
              THEN [gen EXCEPT !.articleHtml = Some(settled.html),
                               !.sources = settled.sources,
                               !.seoKeywords = settled.seoKeywords,
                               !.isLoading = FALSE]
              ELSE [gen EXCEPT !.error = Some(settled.message), !.isLoading = FALSE]
  /\ genStep' = IF settled.ok THEN "succeeded" ELSE "failed"
  /\ UNCHANGED <<client, dom, truncVars, sanVars, cardVars, callerVars, railVars, homeVars>>

GenResolves ==
  \E r \in FewResponses("generateArticle") : GenSettles(GenerateArticle(r, dom))

GenRejects ==
  \E thrown \in ThrownValues : GenSettles(GenerateArticle(Rejected(thrown), dom))

\* The caller's remote call resolves with one of a few responses.
RemoteResolvesFew ==
  /\ pc = "requesting"
  /\ \E r \in FewResponses(fn) : RemoteSettles(r, <<>>)

\* Every topic, through the article functions or through the page.
InitTopic ==
  /\ \/ client = "caller" /\ dom \in BOOLEAN
     \/ client = "generatorPage" /\ dom = TRUE
  /\ CallerInit
  /\ GenInit
  /\ RailInit
  /\ HomeInit
  /\ SanInit
  /\ CardInit
  /\ TruncInit

NextTopic ==
  \/ \E f \in ArticleFns, t \in Topics : InvokeArticle(f, t)
  \/ RemoteResolvesFew
  \/ RemoteRejects
  \/ \E t \in Topics : GenSetTopic(t)
  \/ GenHandleGenerate
  \/ GenResolves
  \/ GenRejects

SpecTopic == InitTopic /\ [][NextTopic]_vars

(***************************************************************************)
(* RailwayTopicsPage.  Mounting the page runs loadTopics; so does choosing *)
(* another model, which gives loadTopics a new identity and re-runs the    *)
(* effect, and so does the refresh button while it is enabled.             *)
(***************************************************************************)
\* loadTopics up to its await, on the useState values r.
LoadTopics(r) ==
  /\ railIssued < MaxRequests
  /\ rail' = [r EXCEPT !.isLoading = TRUE, !.error = None]
  /\ railIssued' = railIssued + 1
  /\ railInFlight' = railInFlight \cup {railIssued + 1}
  /\ railOverlap' = (railOverlap \/ railInFlight # {})
  /\ UNCHANGED <<railLast, client, dom, truncVars, sanVars, cardVars, callerVars, genVars, homeVars>>

\* onChange of the model select, then the effect on loadTopics.
RailSelectModel(m) ==
  /\ client = "railwayPage"
  /\ m # rail.model
  /\ LoadTopics([rail EXCEPT !.model = m])

\* handleRefresh, behind a button disabled while isLoading.
RailRefresh ==
  /\ client = "railwayPage"
  /\ ~rail.isLoading
  /\ LoadTopics(rail)

\* loadTopics after its await, on what fetchRailwayTopics settled with.
RailSettles(id, settled) ==
  /\ client = "railwayPage"
  /\ id \in railInFlight
  /\ railInFlight' = railInFlight \ {id}
  /\ rail' = IF settled.ok
               THEN [rail EXCEPT !.topics = Some(settled.topics), !.isLoading = FALSE]
               ELSE [rail EXCEPT !.error = Some(settled.message), !.isLoading = FALSE]
  /\ railLast' = [id |-> id, outcome |-> settled]
  /\ UNCHANGED <<railIssued, railOverlap, client, dom, truncVars, sanVars, cardVars, callerVars, genVars, homeVars>>

RailTexts ==
  { <<"J_trends_empty">>, <<"J_trends_A">>, <<"J_trends_AB">>, <<"J_object">>, <<" ">> }

RailResponses == { Resolved(text, NoGrounding) : text \in RailTexts }

RailResolves ==
  \E id \in railInFlight, r \in RailResponses :
    \E draws \in DrawsFor("fetchRailwayTopics", r) :
      RailSettles(id, FetchRailwayTopics(r, draws))

RailRejects ==
  \E id \in railInFlight, thrown \in ThrownValues :
    RailSettles(id, FetchRailwayTopics(Rejected(thrown), <<>>))

\* The page after its mount effect: the first loadTopics call is in flight.
InitRail ==
  /\ client = "railwayPage"
  /\ dom = TRUE
  /\ CallerInit
  /\ GenInit
  /\ rail = [RailInitial EXCEPT !.isLoading = TRUE]
  /\ railInFlight = {1}
  /\ railIssued = 1
  /\ railOverlap = FALSE
  /\ railLast = NoSettled
  /\ HomeInit
  /\ SanInit
  /\ CardInit
  /\ TruncInit

NextRail ==
  \/ \E m \in GEMINI_MODEL_OPTIONS : RailSelectModel(m)
  \/ RailRefresh
  \/ RailResolves
  \/ RailRejects

SpecRail == InitRail /\ [][NextRail]_vars

\* What renderContent shows.
View(kind, message, topics) == [kind |-> kind, message |-> message, topics |-> topics]

\* renderContent of RailwayTopicsPage
RenderContent(r) ==
  IF r.isLoading THEN View("spinner", <<>>, <<>>)
  ELSE IF r.error.some /\ r.error.val # <<>> THEN View("error", r.error.val, <<>>)
  ELSE IF r.topics.some /\ r.topics.val # <<>> THEN View("topics", <<>>, r.topics.val)
  ELSE View("placeholder", <<>>, <<>>)

(***************************************************************************)
(* HomePage.  The button that runs handleFetchTopics is disabled while     *)
(* isLoading; choosing another model runs nothing.                         *)
(***************************************************************************)
\* onChange of the model select: setModel(event.target.value)
HomeSelectModel(m) ==
  /\ client = "homePage"
  /\ m # home.model
  /\ home' = [home EXCEPT !.model = m]
  /\ homeStep' = "selectModel"
  /\ UNCHANGED <<homeInFlight, client, dom, truncVars, sanVars, cardVars, callerVars, genVars, railVars>>

\* handleFetchTopics run by a button that is enabled while isLoading.
HandleFetchTopicsWhileLoading ==
  /\ client = "homePage"
  /\ home' = [home EXCEPT !.isLoading = TRUE, !.error = None, !.topics = None]
  /\ homeInFlight' = homeInFlight + 1
  /\ homeStep' = "fetch"
  /\ UNCHANGED <<client, dom, truncVars, sanVars, cardVars, callerVars, genVars, railVars>>

\* handleFetchTopics without its setTopics(null).
HandleFetchTopicsKeepingTopics ==
  /\ client = "homePage"
  /\ ~home.isLoading
  /\ home' = [home EXCEPT !.isLoading = TRUE, !.error = None]
  /\ homeInFlight' = homeInFlight + 1
  /\ homeStep' = "fetch"
  /\ UNCHANGED <<client, dom, truncVars, sanVars, cardVars, callerVars, genVars, railVars>>

\* handleFetchTopics up to its await, behind a button disabled while isLoading.
HandleFetchTopics ==
  /\ client = "homePage"
  /\ ~home.isLoading
  /\ home' = [home EXCEPT !.isLoading = TRUE, !.error = None, !.topics = None]
  /\ homeInFlight' = homeInFlight + 1
  /\ homeStep' = "fetch"
  /\ UNCHANGED <<client, dom, truncVars, sanVars, cardVars, callerVars, genVars, railVars>>

\* handleFetchTopics after its await, on what fetchTrendingTopics settled with.
HomeSettles(settled) ==
  /\ client = "homePage"
  /\ homeInFlight > 0
  /\ homeInFlight' = homeInFlight - 1
  /\ home' = IF settled.ok
               THEN [home EXCEPT !.topics = Some(settled.topics), !.isLoading = FALSE]
               ELSE [home EXCEPT !.error = Some(settled.message), !.isLoading = FALSE]
  /\ homeStep' = IF settled.ok THEN "succeeded" ELSE "failed"
  /\ UNCHANGED <<client, dom, truncVars, sanVars, cardVars, callerVars, genVars, railVars>>

HomeResolves ==
  \E r \in RailResponses : HomeSettles(FetchTrendingTopics(r))

HomeRejects ==
  \E thrown \in ThrownValues : HomeSettles(FetchTrendingTopics(Rejected(thrown)))

\* renderContent of HomePage: an empty list of topics is shown as a list.
HomeRenderContent(h) ==
  IF h.isLoading THEN View("spinner", <<>>, <<>>)
  ELSE IF h.error.some /\ h.error.val # <<>> THEN View("error", h.error.val, <<>>)
  ELSE IF h.topics.some THEN View("topics", <<>>, h.topics.val)
  ELSE View("placeholder", <<>>, <<>>)

\* isGenerateDisabled of ArticleGeneratorPage
IsGenerateDisabled(g) == TopicMissing(g.topic) \/ g.isLoading

\* {error && <ErrorDisplay message={error} />}
GenShowsError(g) == g.error.some /\ g.error.val # <<>>

\* {articleHtml && !isLoading && ...}
GenShowsArticle(g) == g.articleHtml.some /\ g.articleHtml.val # <<>> /\ ~g.isLoading

\* The submit event of the form, which the browser does not fire while the
\* submit button is disabled: handleGenerate up to its await.
GenSubmit ==
  /\ ~IsGenerateDisabled(gen)
  /\ GenHandleGenerate

\* One of the three pages, as it is once mounted.
InitPages ==
  \/ /\ client \in {"homePage", "generatorPage"}
     /\ dom = TRUE
     /\ CallerInit
     /\ GenInit
     /\ RailInit
     /\ HomeInit
     /\ SanInit
     /\ CardInit
     /\ TruncInit
  \/ InitRail

NextPages ==
  \/ \E m \in GEMINI_MODEL_OPTIONS : HomeSelectModel(m)
  \/ HandleFetchTopics
  \/ HomeResolves
  \/ HomeRejects
  \/ \E t \in FewTopics : GenSetTopic(t)
  \/ GenSubmit
  \/ GenResolves
  \/ GenRejects
  \/ \E m \in GEMINI_MODEL_OPTIONS : RailSelectModel(m)
  \/ RailRefresh
  \/ RailResolves
  \/ RailRejects

SpecPages == InitPages /\ [][NextPages]_vars

(***************************************************************************)
(* The meta description of ArticleGeneratorPage.  Here every atom of a     *)
(* plain text is one character: the words of several letters ("p",         *)
(* "style", "script") stand inside tags only, which htmlToPlainText        *)
(* removes, and "&nbsp;" is replaced by a space.                           *)
(***************************************************************************)
META_DESCRIPTION_MAX_LENGTH == 155

\* The pattern "<name", anything, "</name>" tried at index i, the content taken
\* lazily: the index of the closing ">" or 0.
ElementEnd(s, i, name) ==
  IF i + 1 > Len(s) \/ s[i] # "<" \/ Lower(s[i + 1]) # name THEN 0
  ELSE LET hits == { j \in (i + 2)..(Len(s) - 3) :
                       /\ s[j] = "<" /\ s[j + 1] = "/"
                       /\ Lower(s[j + 2]) = name /\ s[j + 3] = ">" }
       IN  IF hits = {} THEN 0 ELSE (CHOOSE j \in hits : \A k \in hits : j <= k) + 3

\* replace(/<name[\s\S]*?<\/name>/gi, " ")
RECURSIVE BlankElementFrom(_, _, _)
BlankElementFrom(s, i, name) ==
  IF i > Len(s) THEN <<>>
  ELSE IF s[i] # "<" THEN
    SubSeq(s, i, NextOf(s, i, {"<"}) - 1) \o BlankElementFrom(s, NextOf(s, i, {"<"}), name)
  ELSE LET e == ElementEnd(s, i, name)
       IN  IF e > 0 THEN <<" ">> \o BlankElementFrom(s, e + 1, name)
           ELSE <<s[i]>> \o BlankElementFrom(s, i + 1, name)

\* The pattern "<", one or more characters other than ">", ">" tried at index i.
AnyTagEnd(s, i) ==
  IF s[i] # "<" THEN 0
  ELSE LET gt == FirstGt(s, i + 1)
       IN  IF gt >= i + 2 THEN gt ELSE 0

\* replace(/<[^>]+>/g, " ")
RECURSIVE BlankTagsFrom(_, _)
BlankTagsFrom(s, i) ==
  IF i > Len(s) THEN <<>>
  ELSE IF s[i] # "<" THEN
    SubSeq(s, i, NextOf(s, i, {"<"}) - 1) \o BlankTagsFrom(s, NextOf(s, i, {"<"}))
  ELSE LET e == AnyTagEnd(s, i)
       IN  IF e > 0 THEN <<" ">> \o BlankTagsFrom(s, e + 1)
           ELSE <<s[i]>> \o BlankTagsFrom(s, i + 1)

\* replace(/&nbsp;/gi, " ")
BlankNbsp(s) == [i \in 1..Len(s) |-> IF s[i] = "&nbsp;" THEN " " ELSE s[i]]

\* replace(/\s+/g, " "): of a run of white space its first character is kept.
CollapseSpaces(s) ==
  SelectSeq([i \in 1..Len(s) |->
               IF IsSpace(s[i]) /\ i > 1 /\ IsSpace(s[i - 1]) THEN "" ELSE s[i]],
            LAMBDA c : c # "")

\* htmlToPlainText
HtmlToPlainText(html) ==
  Trim(CollapseSpaces(BlankNbsp(BlankTagsFrom(
    BlankElementFrom(BlankElementFrom(html, 1, "style"), 1, "script"), 1))))

\* The characters base.replace(/[\s.,;:-]+$/g, "") removes from the end.
IsTrailing(c) == c \in {" ", ".", ",", ";", ":", "-"}

StripTrailing(s) ==
  LET keep == { i \in 1..Len(s) : ~IsTrailing(s[i]) }
  IN  IF keep = {} THEN <<>>
      ELSE SubSeq(s, 1, CHOOSE i \in keep : \A j \in keep : j <= i)

\* truncated.lastIndexOf(" "), counted from 0; -1 when there is no space.
LastIndexOfSpace(s) ==
  LET hits == { i \in 1..Len(s) : s[i] = " " }
  IN  IF hits = {} THEN -1 ELSE (CHOOSE i \in hits : \A j \in hits : j <= i) - 1

ELLIPSIS == <<".", ".", ".">>

\* truncateWithEllipsis cutting back to the last space wherever it is.
TruncateAtAnySpace(value, maxLength) ==
  IF Len(value) <= maxLength THEN value
  ELSE LET truncated == SubSeq(value, 1, maxLength)
           lastSpace == LastIndexOfSpace(truncated)
           base == IF lastSpace > 0
                     THEN SubSeq(truncated, 1, lastSpace) ELSE truncated
       IN  StripTrailing(base) \o ELLIPSIS

\* truncateWithEllipsis; Math.floor(maxLength * 0.6) is 93 for 155.
TruncateWithEllipsis(value, maxLength) ==
  IF Len(value) <= maxLength THEN value
  ELSE LET truncated == SubSeq(value, 1, maxLength)
           lastSpace == LastIndexOfSpace(truncated)
           base == IF lastSpace > (maxLength * 6) \div 10
                     THEN SubSeq(truncated, 1, lastSpace) ELSE truncated
       IN  StripTrailing(base) \o ELLIPSIS

\* \w of the keyword pattern.
IsWordChar(c) ==
  c \notin {" ", ".", ",", ";", ":", "-", "+", "<", ">", "/", "&nbsp;", Tick, Quote, Backslash}

\* \b before index i of s: a word character on one side only.
WordBoundary(s, i) ==
  (i > 1 /\ IsWordChar(s[i - 1])) # (i <= Len(s) /\ IsWordChar(s[i]))

\* s holds word at index i, whatever the case of the letters.
OccursAt(s, i, word) ==
  /\ i + Len(word) - 1 <= Len(s)
  /\ \A k \in 1..Len(word) : Lower(s[i + k - 1]) = Lower(word[k])

\* keywordPattern.test(plainText): \b, the keyword with its special
\* characters escaped, \b, with the i flag.
KeywordPatternTest(keyword, plainText) ==
  \E i \in 1..Len(plainText) :
    /\ OccursAt(plainText, i, keyword)
    /\ WordBoundary(plainText, i)
    /\ WordBoundary(plainText, i + Len(keyword))

\* const cleaned = hydratedText.replace(/\s+/g, " ").trim()
CleanedText(keyword, plainText) ==
  Trim(CollapseSpaces(
    IF KeywordPatternTest(keyword, plainText) THEN plainText
    ELSE keyword \o <<".", " ">> \o plainText))

\* buildMetaDescription, from the plain text of the article on.
MetaDescriptionOf(keyword, plainText) ==
  IF plainText = <<>> THEN TruncateWithEllipsis(keyword, META_DESCRIPTION_MAX_LENGTH)
  ELSE TruncateWithEllipsis(CleanedText(keyword, plainText), META_DESCRIPTION_MAX_LENGTH)

\* buildMetaDescription
BuildMetaDescription(keyword, articleHtml) ==
  MetaDescriptionOf(keyword, HtmlToPlainText(articleHtml))

\* handleKeywordClick: nothing when no article is held, else the keyword and
\* its meta description.
HandleKeywordClick(keyword) ==
  /\ client = "generatorPage"
  /\ IF gen.articleHtml.some /\ gen.articleHtml.val # <<>>
       THEN gen' = [gen EXCEPT
              !.selectedKeyword = Some(keyword),
              !.metaDescription = Some(BuildMetaDescription(keyword, gen.articleHtml.val))]
       ELSE UNCHANGED gen
  /\ genStep' = "keywordClick"
  /\ UNCHANGED <<genInFlight, client, dom, truncVars, sanVars, cardVars, callerVars, railVars, homeVars>>

\* How far around the lengths that matter the article texts are taken.
MaxSlack == 2

Repeat(c, n) == [i \in 1..n |-> c]

\* Lengths of a run of letters: short ones, those that put the last space of
\* the truncated text around Math.floor(155 * 0.6), those around the maximum
\* length, and a long one.
RunLengths ==
  {0, 1} \cup { 90 + d : d \in 0..MaxSlack }
         \cup { META_DESCRIPTION_MAX_LENGTH - d : d \in 0..MaxSlack }
         \cup { META_DESCRIPTION_MAX_LENGTH + 45 }

TailLengths == {0, 2, 70}

\* What stands between two runs of letters.
Separators ==
  { <<" ">>, <<".", " ">>, <<"-", " ">>, <<" ", "k", " ">>, <<"k">>, <<"&nbsp;">>,
    <<"<", "/", "p", ">", "<", "p", ">">> }

\* The articles shown: what sanitizeArticleHtml returns as it was given, an
\* article of a style element alone among them.
MetaHtmls ==
  { h \in { Repeat("x", n) \o sep \o Repeat("x", m) :
              n \in RunLengths, sep \in Separators, m \in TailLengths }
          \cup { <<"<", "style", ">", "x", "<", "/", "STYLE", ">">> } :
      h # <<>> /\ SanitizeArticleHtml(StripCodeFences(h), TRUE) = h }

\* The keywords of the article shown: trimmed, not empty, each once.
MetaKeywords == << <<"k">>, <<"K", "+">>, <<"x", "x">> >>

\* ArticleGeneratorPage showing a generated article and its keywords.
InitMeta ==
  /\ client = "generatorPage"
  /\ dom = TRUE
  /\ CallerInit
  /\ RailInit
  /\ HomeInit
  /\ SanInit
  /\ CardInit
  /\ TruncInit
  /\ \E html \in MetaHtmls :
       gen = [topic |-> <<"a">>, articleHtml |-> Some(html), sources |-> <<>>,
              seoKeywords |-> MetaKeywords, selectedKeyword |-> None,
              metaDescription |-> None, isLoading |-> FALSE, error |-> None]
  /\ genInFlight = 0
  /\ genStep = "succeeded"

NextMeta ==
  \E i \in 1..Len(MetaKeywords) : HandleKeywordClick(MetaKeywords[i])

SpecMeta == InitMeta /\ [][NextMeta]_vars

(***************************************************************************)
(* ArticleGeneratorPage with its keyword buttons: articles are generated   *)
(* through the form and keywords are clicked.                              *)
(***************************************************************************)
\* Responses with an article and keywords, and one without keywords.
KeywordResponses ==
  { Resolved(ArticleDoc("{articleHtml:", html, close), NoGrounding) :
      html \in { <<"<", "p", ">", "x", " ", "a">>, <<"b", " ", "x">>, <<"a">> },
      close \in {"close_case", "close_plain"} }

GenResolvesWithKeywords ==
  \E r \in KeywordResponses : GenSettles(GenerateArticle(r, dom))

\* The keywords handleKeywordClick is run with.
ClickedKeywords == { <<"a">>, <<"A">>, <<"b">> }

InitKeywords ==
  /\ client = "generatorPage"
  /\ dom = TRUE
  /\ CallerInit
  /\ GenInit
  /\ RailInit
  /\ HomeInit
  /\ SanInit
  /\ CardInit
  /\ TruncInit

NextKeywords ==
  \/ \E t \in FewTopics : GenSetTopic(t)
  \/ GenSubmit
  \/ GenResolvesWithKeywords
  \/ GenRejects
  \/ \E k \in ClickedKeywords : HandleKeywordClick(k)

SpecKeywords == InitKeywords /\ [][NextKeywords]_vars

(***************************************************************************)
(* sanitizeArticleHtml on its own: a fragment is sanitized, and the result *)
(* is sanitized again.                                                     *)
(***************************************************************************)
\* The number of pieces a fragment is made of.
MaxPieces == 3

\* Pieces of markup: whole tags of wrapper elements and of other elements,
\* a DOCTYPE declaration, and tags in parts.
Pieces ==
  { <<"<", "html", ">">>, <<"<", "/", "BODY", ">">>, <<"<", "header", ">">>,
    <<"<", "script", ">">>, <<"<", "p", ">">>, <<"<", "!DOCTYPE", ">">>,
    <<"<">>, <<"html", ">">>, <<"/">>, <<" ">>, <<"x">> }

Fragments == { Flatten(ps) : ps \in SeqsUpTo(Pieces, MaxPieces) }

\* How many times in a row sanitizeArticleHtml is applied.
MaxApplications == 2

\* html = sanitizeArticleHtml(...), first of the fragment, then of its own result.
ApplySanitize ==
  /\ client = "sanitizer"
  /\ Len(sanitized) < MaxApplications
  /\ sanitized' = Append(sanitized,
       SanitizeArticleHtml(IF sanitized = <<>> THEN fragment ELSE Last(sanitized), dom))
  /\ UNCHANGED <<client, dom, truncVars, cardVars, fragment, callerVars, genVars, railVars, homeVars>>

InitSanitize ==
  /\ client = "sanitizer"
  /\ dom \in BOOLEAN
  /\ CallerInit
  /\ GenInit
  /\ RailInit
  /\ HomeInit
  /\ fragment \in Fragments
  /\ sanitized = <<>>
  /\ CardInit
  /\ TruncInit

NextSanitize == ApplySanitize

SpecSanitize == InitSanitize /\ [][NextSanitize]_vars

(***************************************************************************)
(* TopicCard.  Its generate prop is generateRailwayArticle on the railway  *)
(* page and generateDetailedSummary otherwise; of the article generate     *)
(* returns the card's detailedSummary is modelled by the html.             *)
(***************************************************************************)
\* {!detailedSummary && !isGenerating && <button onClick={handleGenerate}>}
GenerateOffered(c) ==
  ~(c.detailedSummary.some /\ c.detailedSummary.val # <<>>) /\ ~c.isGenerating

\* handleGenerate up to its await, run by a button rendered at every time.
CardHandleGenerateAlwaysOffered ==
  /\ client = "topicCard"
  /\ card' = [card EXCEPT !.isGenerating = TRUE, !.error = None]
  /\ cardInFlight' = cardInFlight + 1
  /\ cardStep' = "handleGenerate"
  /\ UNCHANGED <<cardLast, client, dom, truncVars, sanVars, callerVars, genVars, railVars, homeVars>>

\* handleGenerate up to its await, run by the Generate Article button.
CardHandleGenerate ==
  /\ client = "topicCard"
  /\ GenerateOffered(card)
  /\ card' = [card EXCEPT !.isGenerating = TRUE, !.error = None]
  /\ cardInFlight' = cardInFlight + 1
  /\ cardStep' = "handleGenerate"
  /\ UNCHANGED <<cardLast, client, dom, truncVars, sanVars, callerVars, genVars, railVars, homeVars>>

\* handleGenerate after its await, on what generate settled with.  The
\* services throw Error objects only, so the catch block sets err.message.
CardSettles(settled) ==
  /\ client = "topicCard"
  /\ cardInFlight > 0
  /\ cardInFlight' = cardInFlight - 1
  /\ card' = IF settled.ok
               THEN [card EXCEPT !.detailedSummary = Some(settled.html),
                                 !.isGenerating = FALSE]
               ELSE [card EXCEPT !.error = Some(settled.message), !.isGenerating = FALSE]
  /\ cardStep' = IF settled.ok THEN "succeeded" ELSE "failed"
  /\ cardLast' = settled
  /\ UNCHANGED <<client, dom, truncVars, sanVars, callerVars, genVars, railVars, homeVars>>

\* generate(topic.topic, model) fails on a blank topic before any remote call.
CardTopicRejected ==
  /\ TopicMissing(card.topic)
  /\ CardSettles(Failure(TOPIC_REQUIRED))

\* The responses explored for the generate prop of a card.
CardResponses(generate) ==
  { Resolved(text, NoGrounding) :
      text \in IF generate = "generateRailwayArticle" THEN TagTexts ELSE FewArticleDocs }

CardResolves ==
  /\ ~TopicMissing(card.topic)
  /\ \E r \in CardResponses(card.generate) :
       CardSettles(Settle(card.generate, r, dom, <<>>))

CardRejects ==
  /\ ~TopicMissing(card.topic)
  /\ \E thrown \in ThrownValues :
       CardSettles(Settle(card.generate, Rejected(thrown), dom, <<>>))

\* A card of a topic list, just mounted.
InitCard ==
  /\ client = "topicCard"
  /\ dom = TRUE
  /\ CallerInit
  /\ GenInit
  /\ RailInit
  /\ HomeInit
  /\ SanInit
  /\ \E t \in FewTopics, generate \in {"generateDetailedSummary", "generateRailwayArticle"} :
       card = CardInitial(t, generate)
  /\ cardInFlight = 0
  /\ cardStep = "none"
  /\ cardLast = NoOutcome
  /\ TruncInit

NextCard ==
  \/ CardHandleGenerate
  \/ CardTopicRejected
  \/ CardResolves
  \/ CardRejects

SpecCard == InitCard /\ [][NextCard]_vars

(***************************************************************************)
(* truncateWithEllipsis on its own, for short values and small maximum     *)
(* lengths.                                                                *)
(***************************************************************************)
\* How many characters longer than the largest maximum length a value gets.
MaxExcess == 2

\* The maximum lengths tried: Math.floor(maxLength * 0.6) is 1 and 3.
MaxLengths == {3, 5}

TruncateChars == {"x", " ", "."}

TruncateValues == SeqsUpTo(TruncateChars, 5 + MaxExcess)

\* truncateWithEllipsis(value, maxLength)
ApplyTruncate ==
  /\ client = "truncate"
  /\ ~shortened.some
  /\ shortened' = Some(TruncateWithEllipsis(given, limit))
  /\ UNCHANGED <<client, dom, given, limit, sanVars, cardVars, callerVars, genVars,
                 railVars, homeVars>>

InitTruncate ==
  /\ client = "truncate"
  /\ dom = TRUE
  /\ CallerInit
  /\ GenInit
  /\ RailInit
  /\ HomeInit
  /\ SanInit
  /\ CardInit
  /\ given \in TruncateValues
  /\ limit \in MaxLengths
  /\ shortened = None

NextTruncate == ApplyTruncate

SpecTruncate == InitTruncate /\ [][NextTruncate]_vars

(***************************************************************************)
(* Properties of the service functions, checked under Spec.                *)
(***************************************************************************)
\* The remote call of the current invocation resolved and the function settled.
SettledOnResponse == step = "remote" /\ ~response.threw

\* The remote call of the current invocation threw and the function settled.
SettledOnThrow == step = "remote" /\ response.threw

WrapperNames == {"html", "head", "body", "title", "meta"}

\* A start or end tag of a document-level wrapper element opens at position i.
WrapperTagAt(s, i, j) ==
  /\ s[i] = "<"
  /\ j <= Len(s)
  /\ Lower(s[j]) \in WrapperNames
  /\ \E k \in (j + 1)..Len(s) : s[k] = ">"

HasWrapperTag(s) ==
  \E i \in 1..Len(s) :
    WrapperTagAt(s, i, IF i < Len(s) /\ s[i + 1] = "/" THEN i + 2 ELSE i + 1)

\* C2: the html of every successful article generation holds no html, head,
\* body, title or meta tag, whatever the response text and whichever path
\* the sanitizer takes.
C2_HtmlHasNoWrapperTags ==
  (pc = "succeeded" /\ fn \in ArticleFns) => ~HasWrapperTag(outcome.html)

\* C3: fetchTrendingTopics and fetchRailwayTopics never return a list holding
\* an element without topic or without summary: they fail instead.
C3_EveryReturnedTopicHasBothFields ==
  (pc = "succeeded" /\ fn \in TopicFns) =>
    \A i \in 1..Len(outcome.topics) :
      outcome.topics[i].topic.has /\ outcome.topics[i].summary.has

\* Where three backticks begin in s.
FenceStarts(s) ==
  { i \in 1..(Len(s) - 2) : s[i] = Tick /\ s[i + 1] = Tick /\ s[i + 2] = Tick }

Least(S) == CHOOSE i \in S : \A j \in S : i <= j

\* Where the content of the block opened at i begins: after the fence and
\* after a tag among tags, if one follows the fence.
ContentStart(s, i, tags) ==
  IF i + 3 <= Len(s) /\ Lower(s[i + 3]) \in tags THEN i + 4 ELSE i + 3

\* The fences that can close a block whose content begins at c.
ClosingFences(s, c) == { j \in FenceStarts(s) : j >= c }

\* s holds a fenced block, its first fence optionally followed by a tag among tags.
HasBlock(s, tags) ==
  /\ FenceStarts(s) # {}
  /\ ClosingFences(s, ContentStart(s, Least(FenceStarts(s)), tags)) # {}

ContentFrom(s, c) == SubSeq(s, c, Least(ClosingFences(s, c)) - 1)

\* The content between the fences of the first block of s.
BlockContent(s, tags) == ContentFrom(s, ContentStart(s, Least(FenceStarts(s)), tags))

\* What generateRailwayArticle shows of stripCodeFences(response.text): the
\* html it returns, or the empty string behind its empty-response failure.
StrippedText ==
  IF outcome.ok THEN outcome.html
  ELSE IF outcome.message = <<ErrorPrefix(fn)>> \o EMPTY_RESPONSE THEN <<>>
  ELSE <<"(thrown)">>

StripsTo(stripped, content) == stripped = Trim(content)

KeptOf(text, content) == IF content = <<>> THEN text ELSE content

WrappedMessage(f, thrown) ==
  IF thrown.isError THEN <<ErrorPrefix(f)>> \o thrown.message ELSE UnknownError(f)

\* C6 as stated: whatever the remote call throws, every service function
\* fails with its prefix followed by the message of the thrown Error, or with
\* its generic message when the thrown value is no Error.
C6_EveryThrownErrorIsPrefixed ==
  SettledOnThrow =>
    /\ pc = "failed"
    /\ outcome.message = WrappedMessage(fn, response.thrown)

IsSyntaxError(thrown) == thrown.isError /\ thrown.name = "SyntaxError"

\* C6 amended: the same, except that a topic-list function reports an Error
\* named SyntaxError thrown by the remote call with its parse-error message.
C6_ThrownErrorIsPrefixed ==
  SettledOnThrow =>
    /\ pc = "failed"
    /\ outcome.message =
         IF fn \in TopicFns /\ IsSyntaxError(response.thrown) THEN PARSE_FAILED_API
         ELSE WrappedMessage(fn, response.thrown)

\* The remote call of generateArticle threw an Error and the function failed
\* with its prefix before the message.
C6_Witness ==
  /\ SettledOnThrow
  /\ fn = "generateArticle"
  /\ response.thrown = ErrorOf("Error", <<"network down">>)
  /\ outcome.message = <<"Failed to generate article: ", "network down">>

EmptyContentMessages(f) ==
  { <<ErrorPrefix(f)>> \o EMPTY_RESPONSE, <<ErrorPrefix(f)>> \o EMPTY_ARTICLE,
    EMPTY_RESPONSE, EMPTY_ARTICLE }

\* C7: a response whose text is blank makes every service function fail with
\* an empty-content message, which is neither the parse-error nor the
\* invalid-format message.
C7_BlankTextIsEmptyContent ==
  (SettledOnResponse /\ Trim(response.text) = <<>>) =>
    /\ pc = "failed"
    /\ outcome.message \in EmptyContentMessages(fn)

ShapeMessages(f) == { <<ErrorPrefix(f)>> \o INVALID_FORMAT, INVALID_FORMAT }

HasTrendsArray(parsed) ==
  parsed.ok /\ parsed.value.kind # "null" /\ parsed.value.trends.type = "array"

\* The message C8 gives a topic-list function for the JSON text it parsed.
ParseAndShape(parsed, message, f) ==
  /\ ~parsed.ok => message = PARSE_FAILED_API
  /\ (parsed.ok /\ ~HasTrendsArray(parsed)) => message \in ShapeMessages(f)

\* C8: a topic-list function fails with the parse-error message on text that
\* is no JSON, and with the invalid-response-format message on any JSON value
\* without a trends array.
C8_ParseAndShapeMessages ==
  (SettledOnResponse /\ fn \in TopicFns) =>
    ParseAndShape(JSONParse(UnwrapJsonFence(response.text)), outcome.message, fn)

\* An invocation has issued at most one remote call and has settled at most
\* once; it has settled once when it succeeded or failed, and not while its
\* call is in flight.
OneCallOneSettle ==
  /\ calls <= 1
  /\ settles <= 1
  /\ pc = "requesting" => (calls = 1 /\ settles = 0 /\ request # <<>>)
  /\ pc \in {"succeeded", "failed"} => (settles = 1 /\ request = <<>>)
  /\ pc = "succeeded" => (calls = 1 /\ outcome.ok)
  /\ pc = "failed" => ~outcome.ok

\* A remote call goes out only in a step of the caller.
CallOnlyWhenInvoked ==
  (pc' = "requesting" /\ (pc # "requesting" \/ calls' # calls)) => step' = "caller"

\* C10: each invocation issues at most one remote call and settles exactly
\* once, as succeeded or failed; no step but an invocation by the caller
\* issues a remote call, so a failure is followed by none of its own.
C10_SingleCallNoRetry == [](OneCallOneSettle) /\ [][CallOnlyWhenInvoked]_vars

\* An invocation failed on the response of its one remote call.
C10_Witness ==
  pc = "failed" /\ step = "remote" /\ calls = 1 /\ settles = 1

\* C14: the html of every successful article generation holds no run of
\* three backticks, whatever the text of the response.
C14_HtmlHasNoFenceMarker ==
  (pc = "succeeded" /\ fn \in ArticleFns) => FenceStarts(outcome.html) = {}

\* The functions that extract an article from a JSON payload.
JsonArticleFns ==
  {"generateDetailedSummary", "generateArticle", "generateRailwayArticle (JSON)"}

\* What the sanitizer makes of an HTML string after fence stripping.
CleanedHtml(html, d) == SanitizeArticleHtml(StripCodeFences(html), d)

\* A field holding a string of which something is left after cleaning.
Usable(field, d) == field.type = "string" /\ CleanedHtml(field.str, d) # <<>>

\* The HTML field the claim takes: articleHtml when both are strings.
HtmlFieldInUse(v) ==
  CASE v.articleHtml.type = "string" -> v.articleHtml
    [] v.articleHtml.type # "string" /\ v.article_html.type = "string" -> v.article_html
    [] OTHER -> Absent

\* The keyword field the claim takes: seoKeywords when both are arrays.
KeywordFieldInUse(v) ==
  CASE v.seoKeywords.type = "array" -> v.seoKeywords
    [] v.seoKeywords.type # "array" /\ v.seo_keywords.type = "array" -> v.seo_keywords
    [] OTHER -> Arr(<<>>)

\* The article was extracted from the fields in use.
ExtractedFrom(v, d, out) ==
  /\ out.ok
  /\ out.html = CleanedHtml(HtmlFieldInUse(v).str, d)
  /\ out.seoKeywords = Keywords(KeywordFieldInUse(v).items)

IsObject(parsed) == parsed.ok /\ parsed.value.kind = "object"

FieldInUseUsable(parsed, d, out) ==
  (IsObject(parsed) /\ Usable(HtmlFieldInUse(parsed.value), d))
    => ExtractedFrom(parsed.value, d, out)

\* The response with the HTML under articleHtml in place of article_html.
CamelTwin(r) == [r EXCEPT !.text = <<"{articleHtml:">> \o Tail(r.text)]

\* A payload with its HTML under article_html alone gives what the same
\* payload with the HTML under articleHtml gives.
SameUnderEitherKey ==
  (response.text # <<>> /\ Head(response.text) = "{article_html:")
    => outcome = ArticleSettled(fn, ArticleTry(CamelTwin(response), dom, fn = "generateArticle"))

\* C15: the HTML is taken from articleHtml when both keys hold a string and
\* from whichever of articleHtml and article_html holds one otherwise; the
\* keywords likewise from seoKeywords or seo_keywords.  A payload whose HTML
\* field holds usable HTML is extracted successfully, and with the same
\* result under either key name.
C15_FieldInUseIsExtracted ==
  (SettledOnResponse /\ fn \in JsonArticleFns) =>
    /\ FieldInUseUsable(JSONParse(ExtractJsonPayload(response.text)), dom, outcome)
    /\ SameUnderEitherKey

\* A payload with HTML under both keys and keywords under seo_keywords was
\* extracted from articleHtml.
C15_Witness ==
  /\ SettledOnResponse
  /\ fn = "generateArticle"
  /\ response.text = <<"{articleHtml:", "<", "p", ">", "x", ",article_html:",
                        "<", "html", ">", "close_snake">>
  /\ outcome.ok
  /\ outcome.html = <<"<", "p", ">", "x">>
  /\ outcome.seoKeywords = << <<"a">>, <<"b">> >>

\* The trimmed strings of a keyword array that are not empty, in order.
Candidates(items) ==
  SelectSeq([i \in 1..Len(items) |->
               IF items[i].type = "string" THEN Trim(items[i].str) ELSE <<>>],
            LAMBDA keyword : keyword # <<>>)

FirstIndex(list, x) == Least({ i \in 1..Len(list) : list[i] = x })

\* result holds each element of candidates once, in order of first occurrence.
IsDedupOf(result, candidates) ==
  /\ \A i \in 1..Len(candidates) : \E j \in 1..Len(result) : result[j] = candidates[i]
  /\ \A j \in 1..Len(result) : \E i \in 1..Len(candidates) : candidates[i] = result[j]
  /\ \A i, j \in 1..Len(result) :
        i < j => FirstIndex(candidates, result[i]) < FirstIndex(candidates, result[j])

\* The keywords returned for the parsed payload, whenever its HTML is usable.
KeywordsOf(parsed, d, out) ==
  (IsObject(parsed) /\ Usable(HtmlFieldInUse(parsed.value), d)) =>
    /\ out.ok
    /\ IsDedupOf(out.seoKeywords, Candidates(KeywordFieldInUse(parsed.value).items))
    /\ (parsed.value.seoKeywords.type # "array" /\ parsed.value.seo_keywords.type # "array")
          => out.seoKeywords = <<>>

\* C16: the seoKeywords returned are the trimmed, non-empty strings of the
\* keyword array, each once (told apart by case), in order of first
\* occurrence; a keyword field that is absent or no array gives the empty
\* list and no failure.
C16_KeywordsTrimmedAndDeduplicated ==
  (SettledOnResponse /\ fn \in JsonArticleFns) =>
    KeywordsOf(JSONParse(ExtractJsonPayload(response.text)), dom, outcome)

\* Of the keywords "a", "A" and " a " the first two were returned.
C16_Witness ==
  /\ SettledOnResponse
  /\ fn = "generateDetailedSummary"
  /\ response.text = <<"{article_html:", "<", "p", ">", "x", "close_case">>
  /\ outcome.ok
  /\ outcome.seoKeywords = << <<"a">>, <<"A">> >>

\* The parsed payload holds no HTML: it is no object, or neither key holds a
\* string that is not empty.
NoHtmlField(parsed) ==
  \/ parsed.value.kind # "object"
  \/ HtmlFieldInUse(parsed.value).str = <<>>

FailedWith(f, out, message) == ~out.ok /\ out.message = <<ErrorPrefix(f)>> \o message

\* What C17 gives for a payload that parsed.
ExtractionOf(parsed, f, d, out) ==
  parsed.ok =>
    IF NoHtmlField(parsed) THEN FailedWith(f, out, MISSING_HTML)
    ELSE IF CleanedHtml(HtmlFieldInUse(parsed.value).str, d) = <<>>
      THEN FailedWith(f, out, EMPTY_ARTICLE)
    ELSE /\ out.ok
         /\ out.html # <<>>
         /\ out.html = CleanedHtml(HtmlFieldInUse(parsed.value).str, d)

\* C17: article extraction fails with the missing-content error on a parsed
\* payload without HTML field; otherwise it strips the fences of the HTML and
\* sanitizes it, fails with the empty-article error when nothing is left, and
\* returns the sanitizer's output, which is not empty.
C17_HtmlFieldIsSanitizedOrFails ==
  (SettledOnResponse /\ fn \in JsonArticleFns) =>
    ExtractionOf(JSONParse(ExtractJsonPayload(response.text)), fn, dom, outcome)

\* The elements of the trends array of the response.
TrendsItems(parsed) == parsed.value.trends.items

Bijections(n) == { p \in [1..n -> 1..n] : \A i, j \in 1..n : i # j => p[i] # p[j] }

\* Each topic carries the topic and summary of the element p gives it.
CarriesElements(topics, items, p) ==
  \A i \in 1..Len(topics) :
    /\ topics[i].topic = items[p[i]].topic
    /\ topics[i].summary = items[p[i]].summary

\* The topics are the elements, one each: in the order of the array for
\* fetchTrendingTopics, in some order for fetchRailwayTopics.
TopicsOfElements(f, topics, items) ==
  /\ Len(topics) = Len(items)
  /\ IF f = "fetchTrendingTopics"
       THEN CarriesElements(topics, items, [i \in 1..Len(items) |-> i])
       ELSE \E p \in Bijections(Len(items)) : CarriesElements(topics, items, p)

\* C18: every topic returned by a successful fetchTrendingTopics or
\* fetchRailwayTopics carries the topic and summary of its element of the
\* trends array, and all carry one sources list, the grounding sources
\* extracted from the response.
C18_TopicsCarryElementAndSources ==
  (pc = "succeeded" /\ fn \in TopicFns) =>
    /\ TopicsOfElements(fn, outcome.topics, TrendsItems(JSONParse(UnwrapJsonFence(response.text))))
    /\ \A i \in 1..Len(outcome.topics) :
          outcome.topics[i].sources = ExtractGroundingSources(response.grounding)

\* fetchTrendingTopics returned two topics, each with the two grounding sources.
C18_Witness ==
  /\ pc = "succeeded"
  /\ fn = "fetchTrendingTopics"
  /\ Len(outcome.topics) = 2
  /\ outcome.topics[1].topic = Field("A")
  /\ outcome.topics[2].summary = Field("b")
  /\ Len(outcome.topics[1].sources) = 2
  /\ outcome.topics[2].sources = outcome.topics[1].sources

\* The indices of the chunks that hold a uri that is not empty.
WithUri(chunks) == { i \in 1..Len(chunks) : chunks[i].uri.has /\ chunks[i].uri.val # "" }

\* The j-th least element of K.
Nth(K, j) == CHOOSE k \in K : Cardinality({ m \in K : m <= k }) = j

\* sources lists the chunks with a uri, all of them and in their order, each
\* with its uri and its title, "" for a missing title.
ListsChunksWithUri(sources, chunks) ==
  /\ Len(sources) = Cardinality(WithUri(chunks))
  /\ \A j \in 1..Len(sources) :
        /\ sources[j].uri = chunks[Nth(WithUri(chunks), j)].uri.val
        /\ sources[j].title =
             IF chunks[Nth(WithUri(chunks), j)].title.has
               THEN chunks[Nth(WithUri(chunks), j)].title.val ELSE ""

\* The response without grounding metadata.
Ungrounded(r) == [r EXCEPT !.grounding = NoGrounding]

\* C19: the sources generateArticle returns are the grounding chunks with a
\* non-empty uri, in the order of the response and not deduplicated, each as
\* uri and title with "" for a missing title; without candidates, grounding
\* metadata or chunks the list is empty, and the call succeeds or fails as
\* it does on the text alone.
C19_SourcesAreChunksWithUri ==
  (SettledOnResponse /\ fn = "generateArticle") =>
    /\ outcome.ok = ArticleSettled(fn, ArticleTry(Ungrounded(response), dom, TRUE)).ok
    /\ outcome.ok =>
          IF response.grounding.level = "chunks"
            THEN ListsChunksWithUri(outcome.sources, response.grounding.chunks)
            ELSE outcome.sources = <<>>

\* Of four chunks, the two with the uri "u" were returned, one without title.
C19_Witness ==
  /\ SettledOnResponse
  /\ fn = "generateArticle"
  /\ Len(response.grounding.chunks) = 4
  /\ outcome.ok
  /\ outcome.sources = <<[uri |-> "u", title |-> ""], [uri |-> "u", title |-> "t"]>>

\* The topics of the response, before the shuffle.
ExtractedTopics(r) == TopicsTry(r).outcome.topics

\* The number of times x occurs in list.
Occurrences(list, x) == Cardinality({ i \in 1..Len(list) : list[i] = x })

\* C20: the list fetchRailwayTopics returns is a permutation of the topics
\* extracted from the response: as long, and with each topic as many times,
\* whatever the random draws of the shuffle.
C20_ShuffleIsPermutation ==
  (pc = "succeeded" /\ fn = "fetchRailwayTopics") =>
    /\ Len(outcome.topics) = Len(ExtractedTopics(response))
    /\ \A i \in 1..Len(outcome.topics) :
          Occurrences(outcome.topics, outcome.topics[i])
            = Occurrences(ExtractedTopics(response), outcome.topics[i])

\* fetchRailwayTopics returned three topics in the reverse of their order.
C20_Witness ==
  /\ pc = "succeeded"
  /\ fn = "fetchRailwayTopics"
  /\ response.text = <<"J_trends_ABC">>
  /\ outcome.topics = <<WithSources(ElemC, <<>>), WithSources(ElemB, <<>>),
                         WithSources(ElemA, <<>>)>>

\* C21: for a text without three backticks in a row, the empty text
\* included, stripCodeFences returns the text with leading and trailing
\* white space removed, and does not throw.
C21_UnfencedTextIsTrimmed ==
  (SettledOnResponse /\ fn = "generateRailwayArticle" /\ FenceStarts(response.text) = {})
    => /\ StrippedText # <<"(thrown)">>
       /\ StrippedText = TrimEnd(TrimStart(response.text))

\* A padded text with a single backtick was returned without its padding.
C21_Witness ==
  /\ SettledOnResponse
  /\ fn = "generateRailwayArticle"
  /\ response.text = <<" ", Tick, "x", " ">>
  /\ outcome.ok
  /\ outcome.html = <<Tick, "x">>

\* The positions of a list of n topics, in order.
Positions(n) == [i \in 1..n |-> i]

\* The sequences of draws after which the shuffle leaves the positions in
\* this ordering.
DrawsGiving(n, ordering) ==
  { d \in Draws(n) : \A i \in 1..n : Shuffle(Positions(n), d)[i] = ordering[i] }

\* C27: for the n >= 1 topics fetchRailwayTopics extracted, every ordering
\* of the n positions is produced by exactly one sequence of draws; a
\* sequence holds one draw for each position from the last down to the
\* second, n - 1 in all, the draw for a position being that position or one
\* before it; and the list returned is the extracted one so shuffled.
C27_EveryOrderingFromOneDrawSequence ==
  (pc = "succeeded" /\ fn = "fetchRailwayTopics" /\ outcome.topics # <<>>) =>
    LET n == Len(outcome.topics)
    IN  /\ \A p \in Bijections(n) : Cardinality(DrawsGiving(n, p)) = 1
        /\ \A d \in Draws(n) :
             /\ Cardinality(DOMAIN d) = n - 1
             /\ \A i \in DOMAIN d : 1 <= d[i] /\ d[i] <= i
        /\ \E d \in Draws(n) :
             outcome.topics = Shuffle(ExtractedTopics(response), d)

\* fetchRailwayTopics returned three topics with the last one moved to the front.
C27_Witness ==
  /\ pc = "succeeded"
  /\ fn = "fetchRailwayTopics"
  /\ response.text = <<"J_trends_ABC">>
  /\ outcome.topics = <<WithSources(ElemC, <<>>), WithSources(ElemA, <<>>),
                         WithSources(ElemB, <<>>)>>

(***************************************************************************)
(* Properties of the topic argument, checked under SpecTopic.              *)
(***************************************************************************)
\* The topic with each double quote replaced by a backslash and the quote.
QuotesEscaped(t) ==
  Flatten([i \in 1..Len(t) |-> IF t[i] = Quote THEN <<Backslash, Quote>> ELSE <<t[i]>>])

\* What a prompt holds between the quotes its template puts around the topic.
TopicSlot(contents) == SubSeq(contents, 3, Len(contents) - 2)

\* C4: the prompt of every article function holds, between the quotes of its
\* topic slot, the topic with each double quote escaped by a backslash.
C4_TopicQuotesEscaped ==
  (pc = "requesting" /\ fn \in ArticleFns) =>
    TopicSlot(request) = QuotesEscaped(Trim(topic))

\* An article function invoked with a blank topic has failed with "Topic is
\* required." and has issued no remote call.
BlankTopicRejected ==
  (step = "caller" /\ fn \in ArticleFns /\ Trim(topic) = <<>>) =>
    /\ pc = "failed"
    /\ outcome = Failure(TOPIC_REQUIRED)
    /\ calls = 0
    /\ request = <<>>

\* A run of handleGenerate on a blank topic sets the error and starts no request.
BlankTopicNotSubmitted ==
  (genStep' = "handleGenerate" /\ Trim(gen'.topic) = <<>>) =>
    /\ gen'.error = Some(PLEASE_ENTER_TOPIC)
    /\ genInFlight' = genInFlight
    /\ gen'.isLoading = gen.isLoading

\* C9: generateDetailedSummary, generateRailwayArticle and generateArticle
\* fail with "Topic is required." on an empty or whitespace-only topic
\* without a remote call, and handleGenerate of ArticleGeneratorPage on such
\* a topic sets an error and starts no request.
C9_BlankTopicFailsWithoutCall ==
  [](BlankTopicRejected) /\ [][BlankTopicNotSubmitted]_vars

\* generateRailwayArticle was invoked with a topic of two spaces and failed
\* on the topic check.
C9_Witness ==
  /\ step = "caller"
  /\ fn = "generateRailwayArticle"
  /\ topic = <<" ", " ">>
  /\ pc = "failed"
  /\ outcome.message = TOPIC_REQUIRED
  /\ calls = 0

(***************************************************************************)
(* Properties of RailwayTopicsPage, checked under SpecRail.                *)
(***************************************************************************)
\* What the page shows of one settled loadTopics call alone.
ViewOf(settled) ==
  IF ~settled.ok THEN View("error", settled.message, <<>>)
  ELSE IF settled.topics # <<>> THEN View("topics", <<>>, settled.topics)
  ELSE View("placeholder", <<>>, <<>>)

\* C1: once overlapping loadTopics calls have all settled, the page shows the
\* topic list or the error of the call that settled last.
C1_LastSettledIsShown ==
  (railOverlap /\ railInFlight = {} /\ railLast.id # 0) =>
    RenderContent(rail) = ViewOf(railLast.outcome)

\* C23: while a loadTopics call of RailwayTopicsPage awaits its response,
\* isLoading is true: the spinner is shown and the refresh button is disabled.
C23_LoadingWhileInFlight ==
  railInFlight # {} => (rail.isLoading /\ RenderContent(rail).kind = "spinner")

(***************************************************************************)
(* Properties of the three pages, checked under SpecPages.                 *)
(***************************************************************************)
\* After a failed fetch HomePage shows the error alone and its button is enabled.
HomeFailureShown ==
  homeStep = "failed" =>
    /\ HomeRenderContent(home).kind = "error"
    /\ ~home.isLoading

\* After a failed generation ArticleGeneratorPage shows the error, no article,
\* and its Generate button is enabled.
GenFailureShown ==
  genStep = "failed" =>
    /\ GenShowsError(gen)
    /\ ~GenShowsArticle(gen)
    /\ ~gen.isLoading
    /\ ~IsGenerateDisabled(gen)

\* The step in which a loadTopics call of RailwayTopicsPage fails leaves the
\* page showing that call's error alone, with its button enabled.
RailFailureShown ==
  (railLast'.id # railLast.id /\ ~railLast'.outcome.ok) =>
    /\ RenderContent(rail') = View("error", railLast'.outcome.message, <<>>)
    /\ ~rail'.isLoading

\* C11: on HomePage, RailwayTopicsPage and ArticleGeneratorPage a request that
\* fails leaves the page showing the failure message and no result, with
\* isLoading false and the control that starts a request enabled.
C11_FailureShownAndRetryable ==
  [](HomeFailureShown /\ GenFailureShown) /\ [][RailFailureShown]_vars

\* A step that starts a fetchTrendingTopics request of HomePage is taken
\* while isLoading is false.
HomeStartsWhenNotLoading ==
  homeInFlight' > homeInFlight => ~home.isLoading

\* C24: HomePage has at most one fetchTrendingTopics request in flight, a
\* request starts only while isLoading is false, and isLoading is true from
\* the start of a request until the request settles.
C24_OneFetchInFlight ==
  /\ [](homeInFlight <= 1 /\ (home.isLoading <=> homeInFlight = 1))
  /\ [][HomeStartsWhenNotLoading]_vars

\* A request of HomePage is in flight, started after another model was chosen.
C24_Witness ==
  /\ client = "homePage"
  /\ homeStep = "fetch"
  /\ homeInFlight = 1
  /\ home.isLoading
  /\ home.model # DEFAULT_MODEL

\* C25: HomePage never holds topics and an error together; while isLoading
\* it holds neither; once a request has settled it holds exactly one of them.
C25_TopicsXorError ==
  /\ ~(home.topics.some /\ home.error.some)
  /\ home.isLoading => (~home.topics.some /\ ~home.error.some)
  /\ homeStep \in {"succeeded", "failed"} => (home.topics.some # home.error.some)

\* A request of HomePage failed: the page holds its error and no topics.
C25_Witness ==
  /\ client = "homePage"
  /\ homeStep = "failed"
  /\ home.error = Some(<<ErrorPrefix("fetchTrendingTopics")>> \o INVALID_FORMAT)
  /\ ~home.topics.some
  /\ ~home.isLoading

(***************************************************************************)
(* Properties of the meta description, checked under SpecMeta.             *)
(***************************************************************************)
\* The text buildMetaDescription truncates for the keyword clicked: the cleaned
\* text, or the keyword when the article has no plain text.
CleanedOf(keyword, plainText) ==
  IF plainText = <<>> THEN keyword ELSE CleanedText(keyword, plainText)

ShownCleaned ==
  CleanedOf(gen.selectedKeyword.val, HtmlToPlainText(gen.articleHtml.val))

EndsWithEllipsis(s) ==
  Len(s) >= 3 /\ SubSeq(s, Len(s) - 2, Len(s)) = ELLIPSIS

\* The meta description is at most 155 characters long, and ends in "..."
\* when it was cut from a cleaned text of more than 155.
WithinMetaLength(description, cleaned) ==
  /\ Len(description) <= META_DESCRIPTION_MAX_LENGTH
  /\ Len(cleaned) > META_DESCRIPTION_MAX_LENGTH => EndsWithEllipsis(description)

\* C12: buildMetaDescription returns at most 155 characters for every keyword
\* and article, and a string ending in "..." whenever the cleaned text is
\* longer than 155 characters.
C12_MetaDescriptionWithinLimit ==
  genStep = "keywordClick" =>
    WithinMetaLength(gen.metaDescription.val, ShownCleaned)

\* s holds word somewhere, whatever the case of the letters.
ContainsIgnoringCase(s, word) == \E i \in 1..Len(s) : OccursAt(s, i, word)

\* C13: for every keyword and every article whose plain text is not empty,
\* the meta description holds the keyword, whatever the case, also when the
\* text was truncated.
C13_MetaDescriptionHoldsKeyword ==
  (genStep = "keywordClick" /\ HtmlToPlainText(gen.articleHtml.val) # <<>>) =>
    ContainsIgnoringCase(gen.metaDescription.val, gen.selectedKeyword.val)

(***************************************************************************)
(* Properties of sanitizeArticleHtml, checked under SpecSanitize.          *)
(***************************************************************************)
\* C22: sanitizing the result of sanitizing a fragment that holds no html,
\* head, body, title or meta tag returns that result unchanged.
C22_SanitizeIsIdempotent ==
  (Len(sanitized) = MaxApplications /\ ~HasWrapperTag(fragment))
    => sanitized[2] = sanitized[1]

\* A start or end tag of the element name, and of no element whose name
\* only begins with it, opens at index i: the index of its ">", or 0.
WrapperTagEnd(s, i, name) ==
  IF i > Len(s) \/ s[i] # "<" THEN 0
  ELSE LET k == SkipSpaces(s, IF i + 1 <= Len(s) /\ s[i + 1] = "/" THEN i + 2 ELSE i + 1)
       IN  IF k <= Len(s) /\ Lower(s[k]) = name THEN FirstGt(s, k + 1) ELSE 0

\* s without the tags of the element name, every other tag and all text kept.
RECURSIVE WithoutTagsOf(_, _, _)
WithoutTagsOf(s, i, name) ==
  IF i > Len(s) THEN <<>>
  ELSE IF WrapperTagEnd(s, i, name) > 0
    THEN WithoutTagsOf(s, WrapperTagEnd(s, i, name) + 1, name)
  ELSE <<s[i]>> \o WithoutTagsOf(s, i + 1, name)

\* The fragment without its DOCTYPE declarations and without the tags of
\* html, body, head, meta and title, trimmed.
OnlyWrappersRemoved(raw) ==
  Trim(WithoutTagsOf(WithoutTagsOf(WithoutTagsOf(WithoutTagsOf(WithoutTagsOf(
    WithoutDoctype(raw), 1, "html"), 1, "body"), 1, "head"), 1, "meta"), 1, "title"))

\* C28: without a DOM parser sanitizeArticleHtml returns the fragment
\* trimmed, less its DOCTYPE declarations and the opening and closing tags of
\* html, body, head, meta and title: every other tag and all text stay.
C28_FallbackRemovesOnlyWrappers ==
  (~dom /\ sanitized # <<>>) => sanitized[1] = OnlyWrappersRemoved(fragment)

(***************************************************************************)
(* Properties of the keyword buttons, checked under SpecKeywords.          *)
(***************************************************************************)
\* The meta description is held exactly with a selected keyword, and is then
\* the one built from that keyword and the article held.
MetaMatchesKeyword ==
  /\ gen.metaDescription.some <=> gen.selectedKeyword.some
  /\ gen.selectedKeyword.some =>
       /\ gen.articleHtml.some
       /\ gen.metaDescription.val
            = BuildMetaDescription(gen.selectedKeyword.val, gen.articleHtml.val)

\* A run of handleGenerate that starts a request leaves no keyword selected
\* and no meta description.
GenerationResetsKeyword ==
  (genStep' = "handleGenerate" /\ genInFlight' > genInFlight) =>
    (~gen'.selectedKeyword.some /\ ~gen'.metaDescription.some)

\* A run of handleKeywordClick while no article is held changes no useState value.
ClickWithoutArticle ==
  (genStep' = "keywordClick" /\ ~gen.articleHtml.some) => gen' = gen

\* C26: on ArticleGeneratorPage a meta description is held exactly when a
\* keyword is selected, and is then buildMetaDescription of that keyword and
\* the article held; starting a generation clears both; a keyword click
\* while no article is held changes nothing.
C26_MetaFollowsSelectedKeyword ==
  /\ []MetaMatchesKeyword
  /\ [][GenerationResetsKeyword /\ ClickWithoutArticle]_vars

\* The keyword A was clicked on an article that does not hold it.
C26_Witness ==
  /\ genStep = "keywordClick"
  /\ gen.articleHtml = Some(<<"b", " ", "x">>)
  /\ gen.selectedKeyword = Some(<<"A">>)
  /\ gen.metaDescription = Some(<<"A", ".", " ", "b", " ", "x">>)

(***************************************************************************)
(* Properties of TopicCard, checked under SpecCard.                        *)
(***************************************************************************)
\* At most one generate call of the card awaits its result, and isGenerating
\* is true exactly then.
OneGenerationInFlight ==
  /\ cardInFlight <= 1
  /\ card.isGenerating <=> cardInFlight = 1

\* A step that starts a generation is taken while Generate Article is offered.
StartsWhenOffered ==
  cardInFlight' > cardInFlight => GenerateOffered(card)

\* A detailedSummary that has been set stays as it is.
SummaryKept ==
  card.detailedSummary.some => card'.detailedSummary = card.detailedSummary

\* After a failed generation the card is not generating, holds the message of
\* the failure and no article, and offers Generate Article.
CardFailureShown ==
  cardStep = "failed" =>
    /\ ~card.isGenerating
    /\ card.error = Some(cardLast.message)
    /\ GenerateOffered(card)

\* C29: a TopicCard has at most one generation in flight, started only while
\* it holds no article and is not generating; a detailedSummary set by a
\* successful generation is never changed or cleared; after a failed
\* generation isGenerating is false, error holds the message and Generate
\* Article is offered again.
C29_CardGeneratesOnce ==
  /\ [](OneGenerationInFlight /\ CardFailureShown)
  /\ [][StartsWhenOffered /\ SummaryKept]_vars

\* A generation succeeded on a card: it holds the article and no longer
\* offers Generate Article.
C29_Witness ==
  /\ cardStep = "succeeded"
  /\ card.generate = "generateRailwayArticle"
  /\ card.detailedSummary = Some(<<"x">>)
  /\ ~card.error.some
  /\ ~GenerateOffered(card)

(***************************************************************************)
(* Properties of truncateWithEllipsis, checked under SpecTruncate.         *)
(***************************************************************************)
\* The largest whole number not above six tenths of n.
FloorOfSixTenths(n) == CHOOSE k \in 0..n : 10 * k <= 6 * n /\ 10 * (k + 1) > 6 * n

\* The indices, counted from 0, of the spaces among the first n characters of s.
SpacesWithin(s, n) == { i \in 0..(n - 1) : s[i + 1] = " " }

Greatest(S) == CHOOSE i \in S : \A j \in S : j <= i

\* The length of the base of a value longer than n: up to its last space
\* within the first n characters when that space lies after six tenths of n,
\* and n otherwise.
BaseLength(s, n) ==
  IF SpacesWithin(s, n) # {} /\ Greatest(SpacesWithin(s, n)) > FloorOfSixTenths(n)
    THEN Greatest(SpacesWithin(s, n))
    ELSE n

\* t is the first b characters of s without the white space and punctuation
\* they end in, followed by three dots.
IsStrippedBase(t, s, b) ==
  \E n \in 0..b :
    /\ t = SubSeq(s, 1, n) \o <<".", ".", ".">>
    /\ n > 0 => s[n] \notin {" ", ".", ",", ";", ":", "-"}
    /\ \A i \in (n + 1)..b : s[i] \in {" ", ".", ",", ";", ":", "-"}

\* C30: truncateWithEllipsis returns a value no longer than the maximum
\* length as it is; of a longer value it returns the base, the first
\* maxLength characters cut back to their last space when its index is
\* greater than floor(0.6 * maxLength), without its trailing white space and
\* punctuation and followed by "...".
C30_TruncatesAtWordBoundary ==
  shortened.some =>
    IF Len(given) <= limit
      THEN shortened.val = given
      ELSE IsStrippedBase(shortened.val, given, BaseLength(given, limit))

\* A value of seven characters was cut to five, back to the space at index 4,
\* and the dot before the space went with it.
C30_Witness ==
  /\ given = <<"x", "x", "x", ".", " ", "x", "x">>
  /\ limit = 5
  /\ shortened = Some(<<"x", "x", "x", ".", ".", ".">>)

====
